---- MODULE Spec2Model ----
(***************************************************************************)
(* Model of the YouTube Shorts generator: the Project data model and its   *)
(* JSON persistence (src/src/models), the pipeline orchestrator            *)
(* (src/src/main.py) and the YouTube upload (social_media_manager.py).     *)
(*                                                                         *)
(* Python values are modelled as follows.  None, Path(x), str, datetime    *)
(* and its ISO string, tuples and lists are tagged tuples, so that a       *)
(* conversion (Path -> str, datetime -> isoformat, tuple -> list, enum ->  *)
(* value) changes the value and a round trip has to undo it.  An enum      *)
(* member is its NAME ("DRAFT"), its value is the lowercase string.        *)
(***************************************************************************)
EXTENDS Integers, Sequences, FiniteSets, TLC

(***************************************************************************)
(* Bounds of the model.                                                    *)
(***************************************************************************)
MaxSegs == 2       \* segments of a generated script
MaxClock == 1      \* readings of datetime.now() range over 0..MaxClock
MaxServices == 2   \* services of one batch_create call
MaxClips == 1      \* audio / video clips of a Project in the round-trip spec

(***************************************************************************)
(* Python values.                                                          *)
(***************************************************************************)
None == <<"None">>
Path(x) == <<"Path", x>>
Str(x) == <<"str", x>>
DateTime(t) == <<"datetime", t>>
PyTuple(s) == <<"tuple", s>>
PyList(s) == <<"list", s>>

\* str(path)
path_str(p) == Str(p[2])

\* datetime.isoformat() and datetime.fromisoformat()
isoformat(d) == <<"iso", d[2]>>
fromisoformat(s) == DateTime(s[2])

\* list(t) and tuple(l)
list_of(t) == PyList(t[2])
tuple_of(l) == PyTuple(l[2])

RECURSIVE SumSeq(_)
SumSeq(s) == IF s = <<>> THEN 0 ELSE Head(s) + SumSeq(Tail(s))

MapSeq(F(_), s) == [i \in 1..Len(s) |-> F(s[i])]

(***************************************************************************)
(* Python floats, as exact fractions <<numerator, denominator>> in lowest  *)
(* terms with a positive denominator.                                      *)
(***************************************************************************)
Abs(n) == IF n < 0 THEN -n ELSE n

RECURSIVE GCD(_, _)
GCD(a, b) == IF b = 0 THEN a ELSE GCD(b, a % b)

Float(n, d) == LET g == GCD(Abs(n), d) IN <<n \div g, d \div g>>

float_add(x, y) == Float(x[1] * y[2] + y[1] * x[2], x[2] * y[2])
float_neg(x) == <<-x[1], x[2]>>
float_sub(x, y) == float_add(x, float_neg(y))
float_mul(x, y) == Float(x[1] * y[1], x[2] * y[2])
\* x / y for y # 0
float_div(x, y) ==
    IF y[1] > 0 THEN Float(x[1] * y[2], x[2] * y[1])
    ELSE Float(-(x[1] * y[2]), x[2] * (-y[1]))
float_abs(x) == <<Abs(x[1]), x[2]>>
float_le(x, y) == x[1] * y[2] <= y[1] * x[2]
float_gt(x, y) == ~float_le(x, y)

RECURSIVE float_sum(_)
\* sum(...) over floats
float_sum(s) ==
    IF s = <<>> THEN Float(0, 1) ELSE float_add(Head(s), float_sum(Tail(s)))

(***************************************************************************)
(* ProjectStatus                                                           *)
(***************************************************************************)
ProjectStatus ==
    {"DRAFT", "SCRIPT_GENERATED", "AUDIO_GENERATED", "VISUALS_GENERATED",
     "VIDEO_COMPOSED", "READY_TO_UPLOAD", "UPLOADED", "FAILED", "ARCHIVED"}

StatusValue(s) ==
    CASE s = "DRAFT" -> "draft"
      [] s = "SCRIPT_GENERATED" -> "script_generated"
      [] s = "AUDIO_GENERATED" -> "audio_generated"
      [] s = "VISUALS_GENERATED" -> "visuals_generated"
      [] s = "VIDEO_COMPOSED" -> "video_composed"
      [] s = "READY_TO_UPLOAD" -> "ready_to_upload"
      [] s = "UPLOADED" -> "uploaded"
      [] s = "FAILED" -> "failed"
      [] s = "ARCHIVED" -> "archived"

\* ProjectStatus(value): the member with that value, ValueError when none has
HasStatusValue(v) == \E s \in ProjectStatus : StatusValue(s) = v
StatusOfValue(v) == CHOOSE s \in ProjectStatus : StatusValue(s) = v

ScriptStyle == {"HUMOROUS", "EDUCATIONAL", "STORYTELLING", "COMPARISON",
                "REVIEW", "DRAMATIC", "CASUAL", "PROFESSIONAL"}

StyleValue(s) ==
    CASE s = "HUMOROUS" -> "humorous"
      [] s = "EDUCATIONAL" -> "educational"
      [] s = "STORYTELLING" -> "storytelling"
      [] s = "COMPARISON" -> "comparison"
      [] s = "REVIEW" -> "review"
      [] s = "DRAMATIC" -> "dramatic"
      [] s = "CASUAL" -> "casual"
      [] s = "PROFESSIONAL" -> "professional"

StyleOfValue(v) == CHOOSE s \in ScriptStyle : StyleValue(s) = v

\* ScriptStyle[style.upper()] of create_and_post: the member of that name
style_upper(v) ==
    CASE v = "humorous" -> "HUMOROUS"
      [] v = "educational" -> "EDUCATIONAL"
      [] OTHER -> "BOGUS"

(***************************************************************************)
(* ScriptSegment and Script (src/src/models/script.py).  A text is a       *)
(* sequence of one-character strings.                                      *)
(***************************************************************************)
RECURSIVE word_count_from(_, _)
word_count_from(text, inWord) ==
    IF text = <<>> THEN 0
    ELSE IF Head(text) = " " THEN word_count_from(Tail(text), FALSE)
    ELSE (IF inWord THEN 0 ELSE 1) + word_count_from(Tail(text), TRUE)

\* len(text.split())
word_count(text) == word_count_from(text, FALSE)

ScriptSegment(id, text, duration) ==
    [id |-> id, text |-> text, duration |-> duration,
     visual_description |-> "", transition_type |-> "cut",
     emotion |-> "neutral", emphasis_words |-> <<>>]

ScriptSegment_to_dict(s) ==
    [id |-> s.id, text |-> s.text, duration |-> s.duration,
     visual_description |-> s.visual_description,
     transition_type |-> s.transition_type,
     emotion |-> s.emotion, emphasis_words |-> s.emphasis_words,
     word_count |-> word_count(s.text)]

ScriptSegment_from_dict(d) ==
    [id |-> d.id, text |-> d.text, duration |-> d.duration,
     visual_description |-> d.visual_description,
     transition_type |-> d.transition_type,
     emotion |-> d.emotion, emphasis_words |-> d.emphasis_words]

total_duration(sc) ==
    float_sum([i \in 1..Len(sc.segments) |-> sc.segments[i].duration])

total_word_count(sc) ==
    SumSeq([i \in 1..Len(sc.segments) |-> word_count(sc.segments[i].text)])

Script_to_dict(sc) ==
    [id |-> sc.id, service_name |-> sc.service_name,
     affiliate_url |-> sc.affiliate_url, style |-> StyleValue(sc.style),
     segments |-> MapSeq(ScriptSegment_to_dict, sc.segments),
     title |-> sc.title, description |-> sc.description,
     tags |-> sc.tags, hashtags |-> sc.hashtags,
     created_at |-> isoformat(sc.created_at), metadata |-> sc.metadata,
     total_duration |-> total_duration(sc),
     total_word_count |-> total_word_count(sc)]

Script_from_dict(d) ==
    [id |-> d.id, service_name |-> d.service_name,
     affiliate_url |-> d.affiliate_url, style |-> StyleOfValue(d.style),
     segments |-> MapSeq(ScriptSegment_from_dict, d.segments),
     title |-> d.title, description |-> d.description,
     tags |-> d.tags, hashtags |-> d.hashtags,
     created_at |-> fromisoformat(d.created_at), metadata |-> d.metadata]

(***************************************************************************)
(* AudioClip (src/src/models/audio.py).  fs is the set of names of the     *)
(* files that exist on disk.                                               *)
(***************************************************************************)
\* "str(p) if p else None": a Path is always truthy
opt_path_str(p) == IF p = None THEN None ELSE path_str(p)

\* "Path(s) if s else None": None and the empty string are falsy
opt_str_path(s) == IF s = None \/ s = Str("") THEN None ELSE Path(s[2])

\* file_path is not None and file_path.exists()
path_exists(p, fs) == p # None /\ p[2] \in fs

AudioSettings_to_dict(a) ==
    [provider |-> a.provider, speaking_rate |-> a.speaking_rate]

AudioSettings_from_dict(d) ==
    [provider |-> d.provider, speaking_rate |-> d.speaking_rate]

AudioClip_to_dict(c, fs) ==
    [id |-> c.id, segment_id |-> c.segment_id, text |-> c.text,
     file_path |-> opt_path_str(c.file_path), duration |-> c.duration,
     settings |-> AudioSettings_to_dict(c.settings),
     created_at |-> isoformat(c.created_at), metadata |-> c.metadata,
     exists |-> path_exists(c.file_path, fs),
     file_size |-> IF path_exists(c.file_path, fs) THEN 1 ELSE 0]

AudioClip_from_dict(d) ==
    [id |-> d.id, segment_id |-> d.segment_id, text |-> d.text,
     file_path |-> opt_str_path(d.file_path), duration |-> d.duration,
     settings |-> AudioSettings_from_dict(d.settings),
     created_at |-> fromisoformat(d.created_at), metadata |-> d.metadata]

(***************************************************************************)
(* VideoSettings, VisualElement, VideoClip (src/src/models/video.py)       *)
(***************************************************************************)
VisualType == {"IMAGE", "TEXT"}

VisualTypeValue(t) == IF t = "IMAGE" THEN "image" ELSE "text"

VisualTypeOfValue(v) == CHOOSE t \in VisualType : VisualTypeValue(t) = v

VideoSettings_to_dict(v) ==
    [resolution |-> list_of(v.resolution), fps |-> v.fps]

VideoSettings_from_dict(d) ==
    [resolution |-> tuple_of(d.resolution), fps |-> d.fps]

\* "list(size) if size else None" and "tuple(size) if size else None"
opt_list_of(t) == IF t = None \/ t[2] = <<>> THEN None ELSE list_of(t)
opt_tuple_of(l) == IF l = None \/ l[2] = <<>> THEN None ELSE tuple_of(l)

VisualElement_to_dict(v) ==
    [id |-> v.id, type |-> VisualTypeValue(v.type),
     file_path |-> opt_path_str(v.file_path), content |-> v.content,
     position |-> list_of(v.position), size |-> opt_list_of(v.size),
     duration |-> v.duration, start_time |-> v.start_time,
     end_time |-> v.end_time]

VisualElement_from_dict(d) ==
    [id |-> d.id, type |-> VisualTypeOfValue(d.type),
     file_path |-> opt_str_path(d.file_path), content |-> d.content,
     position |-> tuple_of(d.position), size |-> opt_tuple_of(d.size),
     duration |-> d.duration, start_time |-> d.start_time,
     end_time |-> d.end_time]

VideoClip_to_dict(c, fs) ==
    [id |-> c.id, segment_id |-> c.segment_id,
     audio_clip_id |-> c.audio_clip_id,
     visual_elements |-> MapSeq(VisualElement_to_dict, c.visual_elements),
     duration |-> c.duration, file_path |-> opt_path_str(c.file_path),
     settings |-> VideoSettings_to_dict(c.settings),
     created_at |-> isoformat(c.created_at), metadata |-> c.metadata,
     exists |-> path_exists(c.file_path, fs),
     file_size |-> IF path_exists(c.file_path, fs) THEN 1 ELSE 0]

VideoClip_from_dict(d) ==
    [id |-> d.id, segment_id |-> d.segment_id,
     audio_clip_id |-> d.audio_clip_id,
     visual_elements |-> MapSeq(VisualElement_from_dict, d.visual_elements),
     duration |-> d.duration, file_path |-> opt_str_path(d.file_path),
     settings |-> VideoSettings_from_dict(d.settings),
     created_at |-> fromisoformat(d.created_at), metadata |-> d.metadata]

(***************************************************************************)
(* VideoMetadata and Project (src/src/models/project.py)                   *)
(***************************************************************************)
\* "d.isoformat() if d else None" and "fromisoformat(s) if s else None"
opt_isoformat(d) == IF d = None THEN None ELSE isoformat(d)
opt_fromisoformat(s) == IF s = None THEN None ELSE fromisoformat(s)

VideoMetadata(title, description, tags, thumbnail_path) ==
    [title |-> title, description |-> description, tags |-> tags,
     category_id |-> "22", privacy_status |-> "private",
     made_for_kids |-> FALSE, default_language |-> "ja",
     recording_date |-> None, thumbnail_path |-> thumbnail_path]

VideoMetadata_to_dict(m) ==
    [title |-> m.title, description |-> m.description, tags |-> m.tags,
     category_id |-> m.category_id, privacy_status |-> m.privacy_status,
     made_for_kids |-> m.made_for_kids,
     default_language |-> m.default_language,
     recording_date |-> opt_isoformat(m.recording_date),
     thumbnail_path |-> opt_path_str(m.thumbnail_path)]

VideoMetadata_from_dict(d) ==
    [title |-> d.title, description |-> d.description, tags |-> d.tags,
     category_id |-> d.category_id, privacy_status |-> d.privacy_status,
     made_for_kids |-> d.made_for_kids,
     default_language |-> d.default_language,
     recording_date |-> opt_fromisoformat(d.recording_date),
     thumbnail_path |-> opt_str_path(d.thumbnail_path)]

\* Project(name=..., service_name=..., affiliate_url=...) created at time t
Project(id, name, service_name, affiliate_url, t) ==
    [id |-> id, name |-> name, service_name |-> service_name,
     affiliate_url |-> affiliate_url, status |-> "DRAFT", script |-> None,
     audio_clips |-> <<>>, video_clips |-> <<>>, final_video_path |-> None,
     video_metadata |-> VideoMetadata("", "", <<>>, None),
     youtube_video_id |-> None, created_at |-> DateTime(t),
     updated_at |-> DateTime(t), metadata |-> <<>>]

\* faulty variant: the document stores the member's name
status_to_name(s) == s

\* self.status.value
status_to_value(s) == StatusValue(s)

Project_to_dict(p, fs) ==
    [id |-> p.id, name |-> p.name, service_name |-> p.service_name,
     affiliate_url |-> p.affiliate_url, status |-> status_to_value(p.status),
     script |-> IF p.script = None THEN None
                ELSE <<"dict", Script_to_dict(p.script[2])>>,
     audio_clips |-> [i \in 1..Len(p.audio_clips) |->
                         AudioClip_to_dict(p.audio_clips[i], fs)],
     video_clips |-> [i \in 1..Len(p.video_clips) |->
                         VideoClip_to_dict(p.video_clips[i], fs)],
     final_video_path |-> opt_path_str(p.final_video_path),
     video_metadata |-> VideoMetadata_to_dict(p.video_metadata),
     youtube_video_id |-> p.youtube_video_id,
     created_at |-> isoformat(p.created_at),
     updated_at |-> isoformat(p.updated_at), metadata |-> p.metadata]

\* the object built by cls(...) from a document whose status is valid
Project_of_dict(d) ==
    [id |-> d.id, name |-> d.name, service_name |-> d.service_name,
     affiliate_url |-> d.affiliate_url, status |-> StatusOfValue(d.status),
     script |-> IF d.script = None THEN None
                ELSE <<"Script", Script_from_dict(d.script[2])>>,
     audio_clips |-> MapSeq(AudioClip_from_dict, d.audio_clips),
     video_clips |-> MapSeq(VideoClip_from_dict, d.video_clips),
     final_video_path |-> opt_str_path(d.final_video_path),
     video_metadata |-> VideoMetadata_from_dict(d.video_metadata),
     youtube_video_id |-> d.youtube_video_id,
     created_at |-> fromisoformat(d.created_at),
     updated_at |-> fromisoformat(d.updated_at), metadata |-> d.metadata]

\* Project.from_dict: <<"ok", project>>, or the exception it raises
Project_from_dict(d) ==
    IF HasStatusValue(d.status) THEN <<"ok", Project_of_dict(d)>>
    ELSE <<"raise", "ValueError">>

\* the members of ProjectStatus that the pipeline goes through, in the order
\* create_and_post and upload_to_youtube record them
StatusChain ==
    <<"DRAFT", "SCRIPT_GENERATED", "AUDIO_GENERATED", "VISUALS_GENERATED",
      "VIDEO_COMPOSED", "READY_TO_UPLOAD", "UPLOADED">>

IsSuccessor(a, b) ==
    \E i \in 1..(Len(StatusChain) - 1) :
        StatusChain[i] = a /\ StatusChain[i + 1] = b

\* faulty variant: an update_status that validates the transition table
update_status_checked(p, status, now) ==
    IF IsSuccessor(p.status, status) \/ status = "FAILED"
    THEN [p EXCEPT !.status = status, !.updated_at = DateTime(now)]
    ELSE p

\* update_status: any enum member is accepted; the timestamp is now()
update_status(p, status, now) ==
    [p EXCEPT !.status = status, !.updated_at = DateTime(now)]

\* add_audio_clip
add_audio_clip(p, clip, now) ==
    [p EXCEPT !.audio_clips = Append(@, clip), !.updated_at = DateTime(now)]

\* add_video_clip
add_video_clip(p, clip, now) ==
    [p EXCEPT !.video_clips = Append(@, clip), !.updated_at = DateTime(now)]

\* project_dir / "project.json", the default file of save_to_file
project_file(p) == Path("output/projects/" \o ToString(p.id) \o "/project.json")

\* save_to_file: the files (documents by project id) after the write
save_to_file(files, p, fs) ==
    [i \in DOMAIN files \cup {p.id} |->
        IF i = p.id THEN Project_to_dict(p, fs) ELSE files[i]]

\* load_from_file: open() fails on a missing file, else from_dict
load_from_file(files, f) ==
    IF f \notin DOMAIN files THEN <<"raise", "FileNotFoundError">>
    ELSE Project_from_dict(files[f])

(***************************************************************************)
(* The orchestrator (src/src/main.py) and the upload                       *)
(* (src/src/modules/social_media_manager.py) as a state machine.           *)
(*                                                                         *)
(* One command runs at a time (the CLI runs one per process); pc is the    *)
(* position inside it.  The collaborators (script generation, timing,      *)
(* synthesis, rendering, composition, the YouTube API, the file system)    *)
(* are opaque: each call nondeterministically succeeds or raises.          *)
(***************************************************************************)
VARIABLES
    pc,       \* position of the running command, "idle" when none runs
    op,       \* the command that runs or ran last
    heap,     \* the Project objects of the process, a handle is an index
    cur,      \* handle of create_and_post's local "project"
    ld,       \* handle of resume_project's local "project"
    args,     \* arguments of the running create_and_post
    loc,      \* locals of the running create_and_post
    calls,    \* calls made to each collaborator by the running create/resume
    excs,     \* classes of the exceptions that reached an except block of
              \* the running create/resume, or escaped the command
    result,   \* what the last command returned (or the exception it raised)
    files,    \* the project.json documents on disk, by project id
    fs,       \* names of the media files that exist on disk
    clock,    \* datetime.now()
    nextId,   \* next value of uuid4()
    ytReady,  \* self.youtube_service is initialised
    up,       \* frame of the running upload_to_youtube
    batch,    \* frame of the running batch_create / schedule_uploads
    hist      \* history of the calls of the Project API (see ApiSpec)

vars == <<pc, op, heap, cur, ld, args, loc, calls, excs, result, files, fs,
          clock, nextId, ytReady, up, batch, hist>>

HistNone == [target |-> "", before |-> "", at |-> 0]

Absent == <<"absent">>

Collaborators == {"generate_script", "process_script", "export_for_tts",
                  "synthesize_script", "generate_segment_visuals",
                  "create_thumbnail", "compose_video", "upload_to_youtube",
                  "save_to_file"}

CallsZero == [c \in Collaborators |-> 0]

Inc(c, k, n) == [c EXCEPT ![k] = @ + n]

ArgsNone == [service_name |-> "", affiliate_url |-> "", style |-> "",
             auto_post |-> FALSE]

LocNone == [tts_segments |-> <<>>, audio_clips |-> <<>>,
            visual_elements |-> <<>>, thumbnail_path |-> None,
            video_path |-> None, upload_result |-> None]

UpNone == [caller |-> "", h |-> 0, video_path |-> None,
           thumbnail_path |-> None, schedule_time |-> None, retry |-> 0]

BatchNone == [services |-> <<>>, auto_post |-> FALSE, schedule_start |-> None,
              results |-> <<>>, projects |-> <<>>, k |-> 0,
              upload_results |-> <<>>, current_time |-> None]

\* str(e)
ExcMessage(e) == "msg of " \o e

\* the dictionaries returned by create_and_post and resume_project
ResultDict(success, error, project, video_path, upload_result, pfile) ==
    [success |-> success, error |-> error, project |-> project,
     video_path |-> video_path, upload_result |-> upload_result,
     project_file |-> pfile]

\* the dictionaries returned by upload_to_youtube and schedule_uploads
UploadDict(project_id, scheduled_time, success, video_id, error) ==
    [project_id |-> project_id, scheduled_time |-> scheduled_time,
     success |-> success, video_id |-> video_id, error |-> error]

IntervalHours == 24

\* current_time + timedelta(hours=interval_hours)
plus_hours(d, h) == DateTime(d[2] + h)

(***************************************************************************)
(* create_and_post                                                         *)
(***************************************************************************)
\* Project(name=project_name or f"{service_name}_{now}", ...), lines 88-93
enter_create_and_post(h0, svc, url, style, auto, pname) ==
    /\ heap' = Append(h0, Project(nextId,
                   IF pname # "" THEN pname
                   ELSE svc \o "_" \o ToString(clock), svc, url, clock))
    /\ cur' = Len(h0) + 1
    /\ nextId' = nextId + 1
    /\ args' = [service_name |-> svc, affiliate_url |-> url,
                style |-> style, auto_post |-> auto]
    /\ loc' = LocNone
    /\ calls' = CallsZero
    /\ excs' = <<>>
    /\ pc' = "phase1"

\* "return {...}" of create_and_post: to batch_create's loop (lines 254-257)
\* or to the caller of the command
create_returns(res) ==
    IF op = "batch_create"
    THEN /\ batch' = [batch EXCEPT
                        !.results = Append(@, res),
                        !.projects = IF res.success
                                     THEN Append(@, res.project) ELSE @]
         /\ pc' = "batch_loop"
         /\ result' = result
    ELSE /\ result' = <<"dict", res>>
         /\ pc' = "idle"
         /\ batch' = batch

\* faulty variant: the except block leaves the status alone
failure_status_forgotten == "DRAFT"

\* the status recorded by the except block, line 213
failure_status == "FAILED"

\* "except Exception as e", lines 205-219; h is the heap and c the calls
\* at the raise
create_fails(e, h, c) ==
    /\ heap' = [h EXCEPT ![cur] = update_status(@, failure_status, clock)]
    /\ calls' = c
    /\ excs' = Append(excs, e)
    /\ create_returns(ResultDict(FALSE, Str(ExcMessage(e)), cur,
                                 Absent, Absent, Absent))

GeneratedScript(id, svc, url, style, n, t) ==
    [id |-> id, service_name |-> svc, affiliate_url |-> url, style |-> style,
     segments |-> [i \in 1..n |-> ScriptSegment(i, <<"a", " ", "b">>, Float(1, 1))],
     title |-> "title", description |-> "description", tags |-> <<"tag">>,
     hashtags |-> <<>>, created_at |-> DateTime(t), metadata |-> <<>>]

\* Phase 1, lines 96-109
phase1_status == "SCRIPT_GENERATED"

Phase1 ==
    /\ pc = "phase1"
    /\ UNCHANGED <<hist, op, cur, ld, args, loc, files, fs, clock, nextId, ytReady,
                   up>>
    /\ \/ /\ style_upper(args.style) \notin ScriptStyle
          /\ create_fails("KeyError", heap, calls)
       \/ /\ style_upper(args.style) \in ScriptStyle
          /\ \E n \in 0..MaxSegs :
               IF n = 0
               THEN create_fails("ScriptGenerationError", heap,
                                 Inc(calls, "generate_script", 1))
               ELSE /\ heap' = [heap EXCEPT ![cur] =
                        update_status(
                          [@ EXCEPT !.script = <<"Script",
                              GeneratedScript(heap[cur].id, args.service_name,
                                  args.affiliate_url,
                                  style_upper(args.style), n, clock)>>],
                          phase1_status, clock)]
                    /\ calls' = Inc(calls, "generate_script", 1)
                    /\ pc' = "phase2"
                    /\ UNCHANGED <<excs, result, batch>>

\* Phase 2, lines 111-117: the timing engine works on the script in place
Phase2 ==
    /\ pc = "phase2"
    /\ UNCHANGED <<hist, op, cur, ld, args, files, fs, clock, nextId, ytReady, up>>
    /\ \E ok \in BOOLEAN :
         IF ~ok
         THEN /\ create_fails("KeyError", heap,
                              Inc(calls, "process_script", 1))
              /\ loc' = loc
         ELSE /\ loc' = [loc EXCEPT !.tts_segments =
                    [i \in 1..Len(heap[cur].script[2].segments) |->
                        heap[cur].script[2].segments[i].id]]
              /\ calls' = Inc(Inc(calls, "process_script", 1),
                              "export_for_tts", 1)
              /\ pc' = "phase3"
              /\ UNCHANGED <<heap, excs, result, batch>>

AudioFile(pid, i) == "audio_" \o ToString(pid) \o "_" \o ToString(i)

\* the AudioClip synthesize_segment makes of the i-th exported segment
SynthesizedClip(pid, i, seg_id, t) ==
    [id |-> i, segment_id |-> seg_id, text |-> <<"a", " ", "b">>,
     file_path |-> Path(AudioFile(pid, i)), duration |-> 1,
     settings |-> [provider |-> "mock", speaking_rate |-> 1],
     created_at |-> DateTime(t), metadata |-> <<>>]

RECURSIVE SelectIdx(_, _, _)
\* the indexes of 1..n that are in S, in increasing order
SelectIdx(i, n, S) ==
    IF i > n THEN <<>>
    ELSE (IF i \in S THEN <<i>> ELSE <<>>) \o SelectIdx(i + 1, n, S)

\* synthesize_script, voice_synthesizer.py lines 816-864: a segment whose
\* synthesis fails is logged and skipped; okSet are the indexes that succeed
synthesize_script(segments, pid, okSet, t) ==
    LET idx == SelectIdx(1, Len(segments), okSet)
    IN [k \in 1..Len(idx) |-> SynthesizedClip(pid, idx[k], segments[idx[k]], t)]

RECURSIVE add_audio_clips(_, _, _)
\* "for clip in audio_clips: project.add_audio_clip(clip)"
add_audio_clips(p, clips, t) ==
    IF clips = <<>> THEN p
    ELSE add_audio_clips(add_audio_clip(p, Head(clips), t), Tail(clips), t)

\* Phase 3, lines 119-130
phase3_status == "AUDIO_GENERATED"

Phase3 ==
    /\ pc = "phase3"
    /\ UNCHANGED <<hist, op, cur, ld, args, files, clock, nextId, ytReady, up>>
    /\ \/ /\ create_fails("OSError", heap, Inc(calls, "synthesize_script", 1))
          /\ UNCHANGED <<loc, fs>>
       \/ \E okSet \in SUBSET (1..Len(loc.tts_segments)) :
            LET clips == synthesize_script(loc.tts_segments, heap[cur].id,
                                           okSet, clock)
            IN /\ loc' = [loc EXCEPT !.audio_clips = clips]
               /\ heap' = [heap EXCEPT ![cur] =
                     update_status(add_audio_clips(@, clips, clock),
                                   phase3_status, clock)]
               /\ fs' = fs \cup {clips[k].file_path[2] : k \in 1..Len(clips)}
               /\ calls' = Inc(calls, "synthesize_script", 1)
               /\ pc' = "phase4"
               /\ UNCHANGED <<excs, result, batch>>

MinOf(a, b) == IF a <= b THEN a ELSE b

\* zip(processed_script.segments, audio_clips), line 136: what is handed to
\* generate_segment_visuals for each pair
zip_segments_clips(segments, clips) ==
    [k \in 1..MinOf(Len(segments), Len(clips)) |->
        [segment_id |-> segments[k].id,
         clip_segment_id |-> clips[k].segment_id,
         duration |-> clips[k].duration]]

ThumbFile(pid) == "thumb_" \o ToString(pid)

\* Phase 4, lines 132-153
phase4_status == "VISUALS_GENERATED"

Phase4 ==
    /\ pc = "phase4"
    /\ UNCHANGED <<hist, op, cur, ld, args, files, clock, nextId, ytReady, up>>
    /\ LET pairs == zip_segments_clips(heap[cur].script[2].segments,
                                       loc.audio_clips)
       IN \/ \E j \in 1..Len(pairs) :
               /\ create_fails("Exception", heap,
                               Inc(calls, "generate_segment_visuals", j))
               /\ UNCHANGED <<loc, fs>>
          \/ /\ create_fails("Exception", heap,
                    Inc(Inc(calls, "generate_segment_visuals", Len(pairs)),
                        "create_thumbnail", 1))
             /\ UNCHANGED <<loc, fs>>
          \/ /\ loc' = [loc EXCEPT !.visual_elements = pairs,
                           !.thumbnail_path = Path(ThumbFile(heap[cur].id))]
             /\ heap' = [heap EXCEPT ![cur] =
                   update_status(
                     [@ EXCEPT !.video_metadata.thumbnail_path =
                                   Path(ThumbFile(heap[cur].id))],
                     phase4_status, clock)]
             /\ fs' = fs \cup {ThumbFile(heap[cur].id)}
             /\ calls' = Inc(Inc(calls, "generate_segment_visuals",
                                 Len(pairs)), "create_thumbnail", 1)
             /\ pc' = "phase5"
             /\ UNCHANGED <<excs, result, batch>>

VideoFile(pid) == "video_" \o ToString(pid)

\* faulty variant: Phase 5 records READY_TO_UPLOAD at once
phase5_status_skips == "READY_TO_UPLOAD"

\* Phase 5, lines 155-166; compose_video raises when no audio clip has a
\* file (video_composer.py lines 201-214)
phase5_status == "VIDEO_COMPOSED"

Phase5 ==
    /\ pc = "phase5"
    /\ UNCHANGED <<hist, op, cur, ld, args, files, clock, nextId, ytReady, up>>
    /\ \/ /\ create_fails("VideoProcessingError", heap,
                          Inc(calls, "compose_video", 1))
          /\ UNCHANGED <<loc, fs>>
       \/ /\ \E k \in 1..Len(loc.audio_clips) :
                path_exists(loc.audio_clips[k].file_path, fs)
          /\ loc' = [loc EXCEPT !.video_path = Path(VideoFile(heap[cur].id))]
          /\ heap' = [heap EXCEPT ![cur] =
                update_status(
                  [@ EXCEPT !.final_video_path = Path(VideoFile(heap[cur].id))],
                  phase5_status, clock)]
          /\ fs' = fs \cup {VideoFile(heap[cur].id)}
          /\ calls' = Inc(calls, "compose_video", 1)
          /\ pc' = "ready"
          /\ UNCHANGED <<excs, result, batch>>

\* lines 168-186: the upload metadata, READY_TO_UPLOAD, and the call of
\* upload_to_youtube when auto_post
ready_status == "READY_TO_UPLOAD"

MarkReady ==
    /\ pc = "ready"
    /\ UNCHANGED <<hist, op, cur, ld, args, loc, calls, excs, result, files, fs,
                   clock, nextId, ytReady, batch>>
    /\ heap' = [heap EXCEPT ![cur] =
          update_status(
            [@ EXCEPT !.video_metadata =
                VideoMetadata(heap[cur].script[2].title,
                              heap[cur].script[2].description,
                              heap[cur].script[2].tags, loc.thumbnail_path)],
            ready_status, clock)]
    /\ IF args.auto_post
       THEN /\ pc' = "up_check"
            /\ up' = [caller |-> "create_and_post", h |-> cur,
                      video_path |-> loc.video_path,
                      thumbnail_path |-> loc.thumbnail_path,
                      schedule_time |-> None, retry |-> 0]
       ELSE /\ pc' = "save"
            /\ up' = up

\* lines 193-203: project.save_to_file() and the success result
Save ==
    /\ pc = "save"
    /\ UNCHANGED <<hist, op, cur, ld, args, loc, fs, clock, nextId, ytReady, up>>
    /\ \/ /\ create_fails("OSError", heap, Inc(calls, "save_to_file", 1))
          /\ files' = files
       \/ /\ files' = save_to_file(files, heap[cur], fs)
          /\ calls' = Inc(calls, "save_to_file", 1)
          /\ create_returns(ResultDict(TRUE, Absent, cur,
                               path_str(loc.video_path), loc.upload_result,
                               path_str(project_file(heap[cur]))))
          /\ UNCHANGED <<heap, excs>>

(***************************************************************************)
(* upload_to_youtube, social_media_manager.py lines 137-265                *)
(***************************************************************************)
MaxRetries == 5

\* "return {...}" of upload_to_youtube, to its caller: create_and_post
\* (lines 182-191), resume_project (lines 545-555) or the loop of
\* schedule_uploads (lines 456-473); h is the heap at the return
upload_returns(ur, h) ==
    /\ heap' = h
    /\ CASE up.caller = "create_and_post" ->
              /\ loc' = [loc EXCEPT !.upload_result = <<"dict", ur>>]
              /\ pc' = "save"
              /\ UNCHANGED <<result, batch>>
         [] up.caller = "resume_project" ->
              /\ result' = <<"dict", ResultDict(ur.success, Absent, ld, Absent,
                                                <<"dict", ur>>, Absent)>>
              /\ pc' = "idle"
              /\ UNCHANGED <<loc, batch>>
         [] up.caller = "schedule_uploads" ->
              /\ batch' = [batch EXCEPT
                    !.upload_results = Append(@,
                        [ur EXCEPT !.project_id = h[up.h].id,
                                   !.scheduled_time =
                                       isoformat(batch.current_time)]),
                    !.current_time = plus_hours(@, IntervalHours),
                    !.k = @ + 1]
              /\ pc' = "sched_loop"
              /\ UNCHANGED <<result, loc>>

\* an exception leaves upload_to_youtube (handle_errors logs and re-raises):
\* create_and_post's except block, resume_project's except block (lines
\* 571-575), or out of schedule_uploads and batch_create, which catch nothing
upload_raises(e, c) ==
    CASE up.caller = "create_and_post" ->
           /\ create_fails(e, heap, c)
           /\ loc' = loc
      [] up.caller = "resume_project" ->
           /\ result' = <<"dict", ResultDict(FALSE,
                  Str("Failed to resume project: " \o ExcMessage(e)), 0,
                  Absent, Absent, Absent)>>
           /\ excs' = Append(excs, e)
           /\ calls' = c
           /\ pc' = "idle"
           /\ UNCHANGED <<heap, loc, batch>>
      [] up.caller = "schedule_uploads" ->
           /\ result' = <<"raise", e>>
           /\ excs' = Append(excs, e)
           /\ calls' = c
           /\ pc' = "idle"
           /\ UNCHANGED <<heap, loc, batch>>

UploadFailure(e) == UploadDict(0, Absent, FALSE, Absent, Str(ExcMessage(e)))

\* lines 156-207: the checks before the try block raise UploadError; an
\* exception while the request is built is caught by the try block
UploadCheck ==
    /\ pc = "up_check"
    /\ UNCHANGED <<hist, op, cur, ld, args, files, fs, clock, nextId, ytReady>>
    /\ LET c == Inc(calls, "upload_to_youtube", 1)
       IN \/ /\ ~ytReady
             /\ upload_raises("UploadError", c)
             /\ up' = up
          \/ /\ ytReady
             /\ ~path_exists(up.video_path, fs)
             /\ upload_raises("UploadError", c)
             /\ up' = up
          \/ /\ ytReady
             /\ path_exists(up.video_path, fs)
             /\ \/ /\ upload_raises("UploadError", c)
                   /\ up' = up
                \/ /\ upload_returns(UploadFailure("Exception"), heap)
                   /\ calls' = c
                   /\ excs' = excs
                   /\ up' = up
                \/ /\ pc' = "up_chunk"
                   /\ up' = [up EXCEPT !.retry = 0]
                   /\ calls' = c
                   /\ UNCHANGED <<heap, loc, excs, result, batch>>

ChunkEvents == {"progress", "response", "empty_response", "server_error",
                "http_error", "exception"}

VideoId(pid) == "vid_" \o ToString(pid)

\* the status recorded after the response, line 243
uploaded_status == "UPLOADED"

\* faulty variant: the video id is recorded, the status is not
upload_forgets_status(h, hd, vid, now) ==
    [h EXCEPT ![hd] = [@ EXCEPT !.youtube_video_id = Str(vid)]]

\* lines 233-250: "if response:" with a response that has an id
upload_succeeds(h, hd, vid, now) ==
    [h EXCEPT ![hd] = update_status([@ EXCEPT !.youtube_video_id = Str(vid)],
                                    uploaded_status, now)]

\* faulty variant: the fifth server error already ends the upload
retries_exhausted_early(retry) == retry >= MaxRetries

\* "if retry > 5: raise UploadError", line 225
retries_exhausted(retry) == retry > MaxRetries

\* one iteration of "while response is None", lines 214-231, and what
\* follows the loop, lines 233-265
UploadChunk ==
    /\ pc = "up_chunk"
    /\ UNCHANGED <<hist, op, cur, ld, args, calls, files, fs, clock, nextId,
                   ytReady>>
    /\ \E ev \in ChunkEvents :
         CASE ev = "progress" ->
                UNCHANGED <<pc, heap, loc, excs, result, batch, up>>
           [] ev = "response" ->
                /\ upload_returns(
                       UploadDict(0, Absent, TRUE,
                                  Str(VideoId(heap[up.h].id)), Absent),
                       upload_succeeds(heap, up.h, VideoId(heap[up.h].id),
                                       clock))
                /\ UNCHANGED <<excs, up>>
           [] ev = "server_error" ->
                IF retries_exhausted(up.retry + 1)
                THEN /\ upload_returns(UploadFailure("UploadError"), heap)
                     /\ excs' = excs
                     /\ up' = [up EXCEPT !.retry = @ + 1]
                ELSE /\ up' = [up EXCEPT !.retry = @ + 1]
                     /\ UNCHANGED <<pc, heap, loc, excs, result, batch>>
           [] ev \in {"empty_response", "http_error", "exception"} ->
                /\ upload_returns(UploadFailure("UploadError"), heap)
                /\ excs' = excs
                /\ up' = up

(***************************************************************************)
(* The commands: create_and_post, resume_project, batch_create             *)
(***************************************************************************)
Styles == {"humorous", "bogus"}

CreateAndPost ==
    /\ pc = "idle"
    /\ op = "none"
    /\ \E style \in Styles, auto \in BOOLEAN, pname \in {"", "n1"} :
         enter_create_and_post(<<>>, "svcA", "urlA", style, auto, pname)
    /\ op' = "create_and_post"
    /\ ld' = 0
    /\ result' = <<"none">>
    /\ up' = UpNone
    /\ batch' = BatchNone
    /\ UNCHANGED <<hist, files, fs, clock, ytReady>>

(***************************************************************************)
(* The project file given to --resume was written by an earlier run with   *)
(* Project.save_to_file, in any status; it is an input of the command.     *)
(***************************************************************************)
SavedProject(status, name, hasPath) ==
    [Project(0, name, "svc0", "url0", 0) EXCEPT
        !.status = status,
        !.script = IF status = "DRAFT" THEN None
                   ELSE <<"Script", GeneratedScript(0, "svc0", "url0",
                                                    "HUMOROUS", 1, 0)>>,
        !.audio_clips =
            IF status \in {"DRAFT", "SCRIPT_GENERATED"} THEN <<>>
            ELSE <<SynthesizedClip(0, 1, 1, 0)>>,
        !.final_video_path = IF hasPath THEN Path(VideoFile(0)) ELSE None]

SavedProjects ==
    {SavedProject(st, "n0", st \in {"VIDEO_COMPOSED", "READY_TO_UPLOAD",
                                    "UPLOADED"}) : st \in ProjectStatus}
    \cup {SavedProject("DRAFT", "", FALSE),
          SavedProject("READY_TO_UPLOAD", "n0", FALSE)}

\* what resume_project may find on disk: no file, or a saved project whose
\* final video exists or not
ResumeDisks ==
    {[files |-> <<>>, fs |-> {}]} \cup
    {[files |-> [i \in {0} |-> Project_to_dict(sp, vs)], fs |-> vs] :
        sp \in SavedProjects, vs \in {{}, {VideoFile(0)}}}

\* faulty variant: VIDEO_COMPOSED is resumed at the upload as well
resume_branch_composed(status) ==
    CASE status = "DRAFT" -> "restart"
      [] status \in {"READY_TO_UPLOAD", "VIDEO_COMPOSED"} -> "upload"
      [] OTHER -> "unsupported"

\* "Determine where to resume", lines 533-569
resume_branch(status) ==
    CASE status = "DRAFT" -> "restart"
      [] status = "READY_TO_UPLOAD" -> "upload"
      [] OTHER -> "unsupported"

\* resume_project, lines 519-575; f is the project file
ResumeProject ==
    /\ pc = "idle"
    /\ op = "none"
    /\ op' = "resume_project"
    /\ batch' = BatchNone
    /\ UNCHANGED <<hist, clock, ytReady>>
    /\ \E d \in ResumeDisks :
         /\ files' = d.files
         /\ fs' = d.fs
    /\ \E f \in {0} :
         LET r == load_from_file(files', f)
             p == r[2]
             returns(res, h) ==
                 /\ excs' = IF r[1] = "raise" THEN <<r[2]>> ELSE <<>>
                 /\ result' = <<"dict", res>>
                 /\ heap' = h
                 /\ pc' = "idle"
                 /\ ld' = Len(h)
                 /\ cur' = 0
                 /\ args' = ArgsNone
                 /\ loc' = LocNone
                 /\ calls' = CallsZero
                 /\ up' = UpNone
                 /\ nextId' = nextId
         IN IF r[1] = "raise"
            THEN returns(ResultDict(FALSE,
                     Str("Failed to resume project: " \o ExcMessage(r[2])),
                     0, Absent, Absent, Absent), <<>>)
            ELSE IF resume_branch(p.status) = "restart"
            THEN /\ enter_create_and_post(<<p>>, p.service_name,
                                          p.affiliate_url, "humorous", FALSE,
                                          p.name)
                 /\ ld' = 1
                 /\ result' = <<"none">>
                 /\ up' = UpNone
            ELSE IF resume_branch(p.status) = "upload"
            THEN IF path_exists(p.final_video_path, fs')
                 THEN /\ pc' = "up_check"
                      /\ up' = [caller |-> "resume_project", h |-> 1,
                                video_path |-> p.final_video_path,
                                thumbnail_path |->
                                    p.video_metadata.thumbnail_path,
                                schedule_time |-> None, retry |-> 0]
                      /\ heap' = <<p>>
                      /\ ld' = 1
                      /\ cur' = 0
                      /\ args' = ArgsNone
                      /\ loc' = LocNone
                      /\ calls' = CallsZero
                      /\ excs' = <<>>
                      /\ result' = <<"none">>
                      /\ nextId' = nextId
                 ELSE returns(ResultDict(FALSE, Str("Video file not found"),
                                         1, Absent, Absent, Absent), <<p>>)
            ELSE returns(ResultDict(FALSE,
                     Str("Cannot resume from status: "
                             \o StatusValue(p.status)),
                     1, Absent, Absent, Absent), <<p>>)

Services == {[name |-> "svcA", url |-> "urlA", style |-> "humorous"],
             [name |-> "svcB", url |-> "urlB", style |-> "bogus"]}

ServiceLists ==
    UNION {[1..n -> Services] : n \in 1..MaxServices}

\* batch_create, lines 241-242: the loop over the services starts
BatchCreate ==
    /\ pc = "idle"
    /\ op = "none"
    /\ \E svcs \in ServiceLists, auto \in BOOLEAN,
          start \in {None, DateTime(100)} :
         /\ batch' = [BatchNone EXCEPT !.services = svcs, !.auto_post = auto,
                                       !.schedule_start = start]
    /\ op' = "batch_create"
    /\ pc' = "batch_loop"
    /\ heap' = <<>>
    /\ cur' = 0
    /\ ld' = 0
    /\ args' = ArgsNone
    /\ loc' = LocNone
    /\ calls' = CallsZero
    /\ excs' = <<>>
    /\ result' = <<"none">>
    /\ up' = UpNone
    /\ UNCHANGED <<hist, files, fs, clock, nextId, ytReady>>

\* batch_create, lines 244-266: the next service, or the scheduling, or the
\* return of the results
BatchLoop ==
    /\ pc = "batch_loop"
    /\ UNCHANGED <<hist, op, ld, files, fs, clock, ytReady, up>>
    /\ IF batch.services # <<>>
       THEN /\ enter_create_and_post(heap, Head(batch.services).name,
                                     Head(batch.services).url,
                                     Head(batch.services).style, FALSE, "")
            /\ batch' = [batch EXCEPT !.services = Tail(@)]
            /\ result' = result
       ELSE /\ UNCHANGED <<heap, cur, nextId, args, loc, calls, excs>>
            /\ IF batch.auto_post /\ batch.projects # <<>>
                  /\ batch.schedule_start # None
               THEN /\ batch' = [batch EXCEPT !.k = 1,
                                    !.current_time = batch.schedule_start]
                    /\ pc' = "sched_loop"
                    /\ result' = result
               ELSE /\ result' = <<"list", batch.results>>
                    /\ pc' = "idle"
                    /\ batch' = batch

\* batch_create, lines 269-271: zip(results, upload_results)
attach_upload_results(results, upload_results) ==
    [i \in 1..Len(results) |->
        IF i <= Len(upload_results) /\ results[i].success
        THEN [results[i] EXCEPT !.upload_result =
                                    <<"dict", upload_results[i]>>]
        ELSE results[i]]

\* schedule_uploads, lines 441-475: one iteration of its loop, or its return
\* into batch_create, lines 268-273
SchedLoop ==
    /\ pc = "sched_loop"
    /\ UNCHANGED <<hist, op, heap, cur, ld, args, loc, calls, excs, files, fs,
                   clock, nextId, ytReady>>
    /\ IF batch.k > Len(batch.projects)
       THEN /\ result' = <<"list", attach_upload_results(batch.results,
                                       batch.upload_results)>>
            /\ pc' = "idle"
            /\ UNCHANGED <<batch, up>>
       ELSE LET p == heap[batch.projects[batch.k]]
            IN IF ~path_exists(p.final_video_path, fs)
               THEN /\ batch' = [batch EXCEPT
                          !.upload_results = Append(@,
                              UploadDict(p.id, Absent, FALSE, Absent,
                                         Str("Video file not found"))),
                          !.k = @ + 1]
                    /\ UNCHANGED <<pc, result, up>>
               ELSE /\ pc' = "up_check"
                    /\ up' = [caller |-> "schedule_uploads",
                              h |-> batch.projects[batch.k],
                              video_path |-> p.final_video_path,
                              thumbnail_path |->
                                  p.video_metadata.thumbnail_path,
                              schedule_time |-> batch.current_time,
                              retry |-> 0]
                    /\ UNCHANGED <<result, batch>>

(***************************************************************************)
(* The initial state: a fresh process, nothing runs yet.                   *)
(***************************************************************************)
Init ==
    /\ pc = "idle"
    /\ op = "none"
    /\ heap = <<>>
    /\ cur = 0
    /\ ld = 0
    /\ args = ArgsNone
    /\ loc = LocNone
    /\ calls = CallsZero
    /\ excs = <<>>
    /\ result = <<"none">>
    /\ files = <<>>
    /\ fs = {}
    /\ clock = 0
    /\ nextId = 1
    /\ ytReady \in BOOLEAN
    /\ up = UpNone
    /\ batch = BatchNone
    /\ hist = HistNone

Next ==
    \/ CreateAndPost
    \/ Phase1
    \/ Phase2
    \/ Phase3
    \/ Phase4
    \/ Phase5
    \/ MarkReady
    \/ UploadCheck
    \/ UploadChunk
    \/ Save
    \/ ResumeProject
    \/ BatchCreate
    \/ BatchLoop
    \/ SchedLoop

Spec == Init /\ [][Next]_vars

(***************************************************************************)
(* The Project API on its own (src/src/models/project.py): one Project     *)
(* object, heap[1], on which update_status, add_audio_clip and             *)
(* add_video_clip are called with any argument in any order while time     *)
(* passes.  hist records the argument and the time of the last             *)
(* update_status and the status before it.                                 *)
(***************************************************************************)
ApiInit ==
    /\ pc = "api"
    /\ op = "none"
    /\ heap = <<Project(0, "n0", "svc0", "url0", 0)>>
    /\ cur = 0
    /\ ld = 0
    /\ args = ArgsNone
    /\ loc = LocNone
    /\ calls = CallsZero
    /\ excs = <<>>
    /\ result = <<"none">>
    /\ files = <<>>
    /\ fs = {}
    /\ clock = 0
    /\ nextId = 1
    /\ ytReady = FALSE
    /\ up = UpNone
    /\ batch = BatchNone
    /\ hist = HistNone

ApiUpdateStatus(target) ==
    /\ pc = "api"
    /\ heap' = [heap EXCEPT ![1] = update_status(@, target, clock)]
    /\ op' = "update_status"
    /\ hist' = [target |-> target, before |-> heap[1].status, at |-> clock]
    /\ UNCHANGED <<pc, cur, ld, args, loc, calls, excs, result, files, fs,
                   clock, nextId, ytReady, up, batch>>

ApiAudioClips ==
    {[SynthesizedClip(0, 1, 1, 0) EXCEPT !.file_path = fp] :
        fp \in {None, Path(AudioFile(0, 1))}}

ApiAddAudioClip ==
    /\ pc = "api"
    /\ Len(heap[1].audio_clips) < MaxClips
    /\ \E c \in ApiAudioClips :
         heap' = [heap EXCEPT ![1] = add_audio_clip(@, c, clock)]
    /\ op' = "add_audio_clip"
    /\ UNCHANGED <<pc, cur, ld, args, loc, calls, excs, result, files, fs,
                   clock, nextId, ytReady, up, batch, hist>>

ApiVisualElement(size) ==
    [id |-> 1, type |-> "TEXT", file_path |-> None, content |-> Str("hi"),
     position |-> PyTuple(<<0, 0>>), size |-> size, duration |-> 1,
     start_time |-> 0, end_time |-> 1]

ApiVideoClips ==
    {[id |-> 1, segment_id |-> 1, audio_clip_id |-> 1,
      visual_elements |-> <<ApiVisualElement(sz)>>, duration |-> 1,
      file_path |-> Path(VideoFile(0)),
      settings |-> [resolution |-> PyTuple(<<1080, 1920>>), fps |-> 30],
      created_at |-> DateTime(0), metadata |-> <<>>] :
     sz \in {None, PyTuple(<<100, 50>>)}}

ApiAddVideoClip ==
    /\ pc = "api"
    /\ Len(heap[1].video_clips) < MaxClips
    /\ \E c \in ApiVideoClips :
         heap' = [heap EXCEPT ![1] = add_video_clip(@, c, clock)]
    /\ op' = "add_video_clip"
    /\ UNCHANGED <<pc, cur, ld, args, loc, calls, excs, result, files, fs,
                   clock, nextId, ytReady, up, batch, hist>>

\* time passes
ApiTick ==
    /\ pc = "api"
    /\ clock < MaxClock
    /\ clock' = clock + 1
    /\ UNCHANGED <<pc, op, heap, cur, ld, args, loc, calls, excs, result,
                   files, fs, nextId, ytReady, up, batch, hist>>

ApiNext ==
    \/ \E target \in ProjectStatus : ApiUpdateStatus(target)
    \/ ApiAddAudioClip
    \/ ApiAddVideoClip
    \/ ApiTick

ApiSpec == ApiInit /\ [][ApiNext]_vars

(***************************************************************************)
(* Persistence on its own: a Project, heap[1], of any status, with or      *)
(* without a script, clips and a final video, is written with              *)
(* save_to_file and read back, as heap[2], with load_from_file.            *)
(***************************************************************************)
SeqsUpTo(S, n) == UNION {[1..k -> S] : k \in 0..n}

RtProjects ==
    {[Project(0, "n0", "svc0", "url0", 0) EXCEPT
         !.status = st, !.script = sc, !.audio_clips = ac,
         !.video_clips = vc, !.final_video_path = fp] :
     st \in ProjectStatus,
     sc \in {None} \cup
            {<<"Script", GeneratedScript(0, "svc0", "url0", "REVIEW", n, 0)>> :
                n \in 1..MaxSegs},
     ac \in SeqsUpTo(ApiAudioClips, MaxClips),
     vc \in SeqsUpTo(ApiVideoClips, MaxClips),
     fp \in {None, Path(VideoFile(0))}}

RtInit ==
    /\ pc = "rt"
    /\ op = "none"
    /\ heap \in {<<p>> : p \in RtProjects}
    /\ cur = 0
    /\ ld = 0
    /\ args = ArgsNone
    /\ loc = LocNone
    /\ calls = CallsZero
    /\ excs = <<>>
    /\ result = <<"none">>
    /\ files = <<>>
    /\ fs \in {{}, {AudioFile(0, 1), VideoFile(0)}}
    /\ clock = 0
    /\ nextId = 1
    /\ ytReady = FALSE
    /\ up = UpNone
    /\ batch = BatchNone
    /\ hist = HistNone

RtSave ==
    /\ pc = "rt"
    /\ op = "none"
    /\ files' = save_to_file(files, heap[1], fs)
    /\ op' = "save_to_file"
    /\ result' = <<"return", project_file(heap[1])>>
    /\ UNCHANGED <<pc, heap, cur, ld, args, loc, calls, excs, fs, clock,
                   nextId, ytReady, up, batch, hist>>

RtLoad ==
    /\ pc = "rt"
    /\ op \in {"none", "save_to_file"}
    /\ LET r == load_from_file(files, 0)
       IN IF r[1] = "raise"
          THEN /\ result' = r
               /\ heap' = heap
          ELSE /\ result' = <<"return", Str("Project")>>
               /\ heap' = <<heap[1], r[2]>>
    /\ op' = "load_from_file"
    /\ UNCHANGED <<pc, cur, ld, args, loc, calls, excs, files, fs, clock,
                   nextId, ytReady, up, batch, hist>>

RtNext ==
    \/ RtSave
    \/ RtLoad

RtSpec == RtInit /\ [][RtNext]_vars

(***************************************************************************)
(* ScriptProcessor (src/src/modules/script_processor.py).  A character of  *)
(* a text that is not ASCII is written as its reading: "maru" is the       *)
(* ideographic full stop, "ten" the ideographic comma, "zen!" and "zen?"   *)
(* the full-width marks, "sai" "kou" the two characters of saikou.  A      *)
(* pause marker is one element of the text that counts for the length of   *)
(* its spelling.                                                           *)
(***************************************************************************)
READING_SPEEDS ==
    [slow |-> Float(4, 1), normal |-> Float(11, 2), fast |-> Float(7, 1),
     ultra_fast |-> Float(17, 2)]

Pause == "<pause>"
PauseComma == "<pause:0.2>"
PauseConj == "<pause:0.3>"

\* len(c) of one element of a text
char_len(c) ==
    CASE c = Pause -> 7
      [] c \in {PauseComma, PauseConj} -> 11
      [] OTHER -> 1

\* len(text)
len(text) == SumSeq([i \in 1..Len(text) |-> char_len(text[i])])

Whitespace == {" "}

RECURSIVE lstrip(_)
lstrip(text) ==
    IF text # <<>> /\ Head(text) \in Whitespace THEN lstrip(Tail(text))
    ELSE text

RECURSIVE rstrip(_)
rstrip(text) ==
    IF text # <<>> /\ text[Len(text)] \in Whitespace
    THEN rstrip(SubSeq(text, 1, Len(text) - 1))
    ELSE text

\* text.strip()
strip(text) == rstrip(lstrip(text))

\* text.startswith(word)
startswith(text, word) ==
    Len(word) <= Len(text) /\ SubSeq(text, 1, Len(word)) = word

\* "word in text"
contains(text, word) ==
    \E i \in 0..(Len(text) - Len(word)) :
        SubSeq(text, i + 1, i + Len(word)) = word

drop(text, n) == SubSeq(text, n + 1, Len(text))

RECURSIVE concat(_)
\* "".join(texts)
concat(texts) ==
    IF texts = <<>> THEN <<>> ELSE Head(texts) \o concat(Tail(texts))

\* r'[。！？!?]+'
sentence_endings == {"maru", "zen!", "zen?", "!", "?"}

RECURSIVE split_runs(_, _, _, _)
\* re.split(f'({sentence_endings})', text): the texts between the runs of
\* ending characters and the runs, alternating
split_runs(text, S, body, run) ==
    IF text = <<>>
    THEN IF run = <<>> THEN <<body>> ELSE <<body, run, <<>>>>
    ELSE IF Head(text) \in S
         THEN split_runs(Tail(text), S, body, Append(run, Head(text)))
         ELSE IF run # <<>>
              THEN <<body, run>> \o split_runs(Tail(text), S, <<Head(text)>>,
                                               <<>>)
              ELSE split_runs(Tail(text), S, Append(body, Head(text)), <<>>)

RECURSIVE join_endings(_, _)
\* "for i in range(0, len(sentences), 2)", lines 163-168; j is i + 1
join_endings(pieces, j) ==
    IF j > Len(pieces) THEN <<>>
    ELSE (IF j + 1 <= Len(pieces) THEN <<pieces[j] \o pieces[j + 1]>>
          ELSE IF strip(pieces[j]) # <<>> THEN <<pieces[j]>>
          ELSE <<>>)
         \o join_endings(pieces, j + 2)

\* [s.strip() for s in result if s.strip()]
strip_nonempty(texts) ==
    LET kept == SelectSeq(texts, LAMBDA s : strip(s) # <<>>)
    IN [i \in 1..Len(kept) |-> strip(kept[i])]

split_into_sentences(text) ==
    strip_nonempty(join_endings(split_runs(text, sentence_endings, <<>>, <<>>),
                                1))

\* r'[、,]|(?:が|で|に|を|は|と|の|から|まで|より)', in the order of the
\* alternatives
phrase_markers ==
    <<<<"ten">>, <<",">>, <<"ga">>, <<"de">>, <<"ni">>, <<"wo">>, <<"ha">>,
      <<"to">>, <<"no">>, <<"ka", "ra">>, <<"ma", "de">>, <<"yo", "ri">>>>

\* the first alternative that matches at the start of text, or <<>>
match_at(text, words) ==
    LET hits == {i \in 1..Len(words) : startswith(text, words[i])}
    IN IF hits = {} THEN <<>>
       ELSE words[CHOOSE i \in hits : \A k \in hits : i <= k]

RECURSIVE split_markers(_, _, _)
\* re.split(f'({phrase_markers})', text): the texts between the markers
\* and the markers, alternating
split_markers(text, words, body) ==
    IF text = <<>> THEN <<body>>
    ELSE LET m == match_at(text, words)
         IN IF m # <<>>
            THEN <<body, m>> \o split_markers(drop(text, Len(m)), words, <<>>)
            ELSE split_markers(Tail(text), words, Append(body, Head(text)))

\* self.config.get(key, default), utils/config.py lines 174-193: a key
\* that is set holds <<"set", value>>
Config_get(config, key, default) ==
    IF config[key] = Absent THEN default ELSE config[key][2]

\* self.default_speed, line 34
default_speed(config) == Config_get(config, "reading_speed", "normal")

\* faulty variant: the expected duration without the pause buffer
expected_duration_unbuffered(text, speed) ==
    float_div(Float(len(text), 1), speed)

\* lines 72-78: char_count / speed + 0.2 + char_count * 0.01
expected_duration(text, speed) ==
    float_add(float_div(Float(len(text), 1), speed),
              float_add(Float(1, 5), Float(len(text), 100)))

TimingTolerance == Float(2, 1)

\* faulty variant: a stored duration is replaced only when it is more
\* than 20 seconds off
way_off_lenient(duration, expected) ==
    float_gt(float_abs(float_sub(duration, expected)), Float(20, 1))

\* "abs(segment.duration - expected_duration) > 2.0", line 81
way_off(duration, expected) ==
    float_gt(float_abs(float_sub(duration, expected)), TimingTolerance)

RECURSIVE validate_timing(_, _, _)
\* _validate_timing from the k-th segment on: the segments as the loop
\* leaves them, and the exception that ended it, if any.  An unknown preset
\* is a KeyError at line 73, a duration that is not a number a TypeError
\* at line 81.
validate_timing(segments, k, preset) ==
    IF k > Len(segments) THEN [segments |-> segments, exc |-> "none"]
    ELSE IF preset \notin DOMAIN READING_SPEEDS
    THEN [segments |-> segments, exc |-> "KeyError"]
    ELSE IF segments[k].duration = None
    THEN [segments |-> segments, exc |-> "TypeError"]
    ELSE LET expected == expected_duration(segments[k].text,
                                           READING_SPEEDS[preset])
         IN validate_timing(
                IF way_off(segments[k].duration, expected)
                THEN [segments EXCEPT ![k].duration = expected]
                ELSE segments,
                k + 1, preset)

SentencePause == Float(3, 10)

\* "len(sentence) / speed + 0.3", line 125
sentence_duration(sentence, speed) ==
    float_add(float_div(Float(len(sentence), 1), speed), SentencePause)

\* "len(part) / speed", line 186
part_duration(part, speed) == float_div(Float(len(part), 1), speed)

RECURSIVE group_sentences_late(_, _, _, _, _, _)
\* faulty variant: a group is closed only once it is already too long
group_sentences_late(sentences, k, current_text, current_duration, max_duration, speed) ==
    IF k > Len(sentences)
    THEN IF current_text # <<>>
         THEN <<[raw |-> current_text, text |-> strip(current_text),
                 duration |-> current_duration]>>
         ELSE <<>>
    ELSE LET d == sentence_duration(sentences[k], speed)
         IN IF float_gt(current_duration, max_duration)
               /\ current_text # <<>>
            THEN <<[raw |-> current_text, text |-> strip(current_text),
                    duration |-> current_duration]>>
                 \o group_sentences_late(sentences, k + 1, sentences[k], d,
                                         max_duration, speed)
            ELSE group_sentences_late(sentences, k + 1,
                     IF current_text # <<>>
                     THEN current_text \o <<" ">> \o sentences[k]
                     ELSE sentences[k],
                     float_add(current_duration, d), max_duration, speed)

RECURSIVE group_sentences(_, _, _, _, _, _)
\* the loop of lines 124-140 from the k-th sentence on and the "remaining
\* text" of lines 142-150: the groups, each with the text it was built
\* from (raw), its stripped text and its duration
group_sentences(sentences, k, current_text, current_duration, max_duration, speed) ==
    IF k > Len(sentences)
    THEN IF current_text # <<>>
         THEN <<[raw |-> current_text, text |-> strip(current_text),
                 duration |-> current_duration]>>
         ELSE <<>>
    ELSE LET d == sentence_duration(sentences[k], speed)
         IN IF float_gt(float_add(current_duration, d), max_duration)
               /\ current_text # <<>>
            THEN <<[raw |-> current_text, text |-> strip(current_text),
                    duration |-> current_duration]>>
                 \o group_sentences(sentences, k + 1, sentences[k], d,
                                    max_duration, speed)
            ELSE group_sentences(sentences, k + 1,
                     IF current_text # <<>>
                     THEN current_text \o <<" ">> \o sentences[k]
                     ELSE sentences[k],
                     float_add(current_duration, d), max_duration, speed)

RECURSIVE group_phrases_no_rest(_, _, _, _, _, _)
\* faulty variant: what is left in the buffer after the loop is dropped
group_phrases_no_rest(parts, k, current_text, current_duration, max_duration, speed) ==
    IF k > Len(parts)
    THEN <<>>
    ELSE LET d == part_duration(parts[k], speed)
         IN IF float_gt(float_add(current_duration, d), max_duration)
               /\ current_text # <<>>
            THEN <<[raw |-> current_text, text |-> strip(current_text),
                    duration |-> current_duration]>>
                 \o group_phrases_no_rest(parts, k + 1, parts[k], d,
                                          max_duration, speed)
            ELSE group_phrases_no_rest(parts, k + 1,
                                       current_text \o parts[k],
                                       float_add(current_duration, d),
                                       max_duration, speed)

RECURSIVE group_phrases(_, _, _, _, _, _)
\* the loop of lines 185-198 from the k-th part on and the "remaining" of
\* lines 200-207
group_phrases(parts, k, current_text, current_duration, max_duration, speed) ==
    IF k > Len(parts)
    THEN IF current_text # <<>>
         THEN <<[raw |-> current_text, text |-> strip(current_text),
                 duration |-> current_duration]>>
         ELSE <<>>
    ELSE LET d == part_duration(parts[k], speed)
         IN IF float_gt(float_add(current_duration, d), max_duration)
               /\ current_text # <<>>
            THEN <<[raw |-> current_text, text |-> strip(current_text),
                    duration |-> current_duration]>>
                 \o group_phrases(parts, k + 1, parts[k], d, max_duration,
                                  speed)
            ELSE group_phrases(parts, k + 1, current_text \o parts[k],
                               float_add(current_duration, d), max_duration,
                               speed)

\* _split_by_phrases, lines 172-210: the new segments have new ids, from
\* next on, and no emphasis words; the segment itself when nothing was
\* grouped
split_by_phrases(segment, max_duration, speed, next) ==
    LET groups == group_phrases(split_markers(segment.text, phrase_markers,
                                              <<>>),
                                1, <<>>, Float(0, 1), max_duration, speed)
    IN IF groups = <<>> THEN <<segment>>
       ELSE [i \in 1..Len(groups) |->
                [ScriptSegment(next + i - 1, groups[i].text,
                               groups[i].duration)
                    EXCEPT !.visual_description = segment.visual_description,
                           !.emotion = segment.emotion]]

\* _split_segment, lines 109-152
split_segment(segment, max_duration, speed, next) ==
    LET sentences == split_into_sentences(segment.text)
    IN IF Len(sentences) <= 1
       THEN split_by_phrases(segment, max_duration, speed, next)
       ELSE LET groups == group_sentences(sentences, 1, <<>>, Float(0, 1),
                                          max_duration, speed)
            IN [i \in 1..Len(groups) |->
                  [ScriptSegment(next + i - 1, groups[i].text,
                                 groups[i].duration)
                      EXCEPT !.visual_description =
                                 segment.visual_description,
                             !.emotion = segment.emotion,
                             !.emphasis_words =
                                 SelectSeq(segment.emphasis_words,
                                     LAMBDA w : contains(groups[i].raw, w))]]

\* the ids of the segments that split_segment made
new_ids(split_segments, segment) ==
    IF split_segments = <<segment>> THEN 0 ELSE Len(split_segments)

RECURSIVE split_long_segments(_, _, _, _, _)
\* _split_long_segments, lines 90-107, from the k-th segment on: the new
\* list of segments, for every segment that was split the segment and
\* what it was split into, and the next unused id
split_long_segments(segments, k, max_segment_duration, preset, next) ==
    IF k > Len(segments)
    THEN [new_segments |-> <<>>, splits |-> <<>>, next |-> next]
    ELSE IF float_le(segments[k].duration, max_segment_duration)
    THEN LET rest == split_long_segments(segments, k + 1,
                                         max_segment_duration, preset, next)
         IN [rest EXCEPT !.new_segments = <<segments[k]>> \o @]
    ELSE LET split_segments == split_segment(segments[k],
                                   max_segment_duration,
                                   READING_SPEEDS[preset], next)
             rest == split_long_segments(segments, k + 1,
                         max_segment_duration, preset,
                         next + new_ids(split_segments, segments[k]))
         IN [new_segments |-> split_segments \o rest.new_segments,
             splits |-> <<[parent |-> segments[k],
                           parts |-> split_segments]>> \o rest.splits,
             next |-> rest.next]

RECURSIVE sub_after(_, _, _)
\* re.sub(r'([...])\s*', r'\1' + marker, text): the marker after every
\* character of S, in place of the white space that follows it
sub_after(text, S, marker) ==
    IF text = <<>> THEN <<>>
    ELSE IF Head(text) \in S
         THEN <<Head(text), marker>> \o sub_after(lstrip(Tail(text)), S, marker)
         ELSE <<Head(text)>> \o sub_after(Tail(text), S, marker)

RECURSIVE replace(_, _, _)
\* text.replace(word, new)
replace(text, word, new) ==
    IF text = <<>> THEN <<>>
    ELSE IF startswith(text, word)
         THEN new \o replace(drop(text, Len(word)), word, new)
         ELSE <<Head(text)>> \o replace(Tail(text), word, new)

\* shikashi, demo, tadashi, soredeha, sate
conjunctions ==
    <<<<"shi", "ka", "shi">>, <<"de", "mo">>, <<"ta", "da", "shi">>,
      <<"so", "re", "de", "ha">>, <<"sa", "te">>>>

RECURSIVE pause_before(_, _, _)
\* "for conj in conjunctions: text = text.replace(conj, '<pause:0.3>' + conj)"
pause_before(text, words, k) ==
    IF k > Len(words) THEN text
    ELSE pause_before(replace(text, words[k], <<PauseConj>> \o words[k]),
                      words, k + 1)

\* _insert_pauses, lines 224-237
insert_pauses(text) ==
    pause_before(
        sub_after(sub_after(text, {"maru", "zen!", "zen?", "!", "?"}, Pause),
                  {"ten", ","}, PauseComma),
        conjunctions, 1)

\* text.count('<pause>')
count_pauses(text) == Len(SelectSeq(text, LAMBDA c : c = Pause))

PauseDuration == Float(3, 10)

\* _add_natural_pauses, lines 212-222
add_natural_pauses(segments) ==
    [i \in 1..Len(segments) |->
        LET text == insert_pauses(segments[i].text)
        IN [segments[i] EXCEPT
               !.text = text,
               !.duration = float_add(@,
                   float_mul(Float(count_pauses(text), 1), PauseDuration))]]

\* the literal alternatives of emphasis_patterns, lines 254-259: sugoi,
\* subarashii, saikou, saishin, kakushinteki, kakkiteki; nanto, jitsuha,
\* tsuini, hajimete; imadake, gentei, tokubetsu, otoku.  The fourth
\* pattern matches digits and numerals, which no text of the model holds.
emphasis_literals ==
    {<<"su", "go", "i">>, <<"moto", "ba", "ra", "shi", "i">>,
     <<"sai", "kou">>, <<"sai", "shin">>, <<"kaku", "shin", "teki">>,
     <<"ga_", "ki", "teki">>, <<"na", "n", "to">>, <<"jitsu", "ha">>,
     <<"tsu", "i", "ni">>, <<"hatsu", "me", "te">>, <<"ima", "da", "ke">>,
     <<"gen", "tei">>, <<"toku", "betsu">>, <<"o", "toku">>}

RECURSIVE seq_of_set(_)
\* list(set(...)): the order is the set's
seq_of_set(S) ==
    IF S = {} THEN <<>>
    ELSE LET x == CHOOSE y \in S : TRUE IN <<x>> \o seq_of_set(S \ {x})

\* _detect_emphasis_words, lines 252-266
detect_emphasis_words(text) ==
    seq_of_set({w \in emphasis_literals : contains(text, w)})

\* two or more of "zen!" and "!" in a row
has_double_bang(text) ==
    \E i \in 1..(Len(text) - 1) :
        text[i] \in {"zen!", "!"} /\ text[i + 1] \in {"zen!", "!"}

contains_any(text, words) == \E w \in words : contains(text, w)

\* _detect_emotion, lines 268-286 (the emoji are left out of the fourth
\* set)
detect_emotion(text) ==
    IF has_double_bang(text)
       \/ contains_any(text, {<<"su", "go", "i">>, <<"sai", "kou">>,
                              <<"moto", "ba", "ra", "shi", "i">>})
    THEN "excited"
    ELSE IF contains_any(text, {<<"zen?">>, <<"?">>, <<"do", "u">>,
                                <<"na", "ze">>, <<"do", "u", "shi", "te">>})
    THEN "curious"
    ELSE IF contains_any(text, {<<"ure", "shi", "i">>, <<"tano", "shi", "i">>,
                                <<"shiawa", "se">>, <<"warai">>})
    THEN "happy"
    ELSE IF contains_any(text, {<<"na", "n", "to">>, <<"jitsu", "ha">>,
                                <<"odoro", "ki">>,
                                <<"bi", "xtu", "ku", "ri">>})
    THEN "surprised"
    ELSE "neutral"

\* faulty variant: the emotion is detected anew for every segment
optimize_delivery_redetect(segments) ==
    [i \in 1..Len(segments) |->
        [segments[i] EXCEPT
            !.emphasis_words =
                IF @ = <<>> THEN detect_emphasis_words(segments[i].text)
                ELSE @,
            !.emotion = detect_emotion(segments[i].text)]]

\* _optimize_delivery, lines 239-250
optimize_delivery(segments) ==
    [i \in 1..Len(segments) |->
        [segments[i] EXCEPT
            !.emphasis_words =
                IF @ = <<>> THEN detect_emphasis_words(segments[i].text)
                ELSE @,
            !.emotion =
                IF @ = "neutral" THEN detect_emotion(segments[i].text)
                ELSE @]]

\* faulty variant: the factor is the total over the ceiling
speed_factor_inverted(max_duration, total) == float_div(total, max_duration)

\* "speed_factor = max_duration / total_duration", line 297
speed_factor(max_duration, total) == float_div(max_duration, total)

\* faulty variant: the last segment keeps its duration
adjust_final_timing_but_last(script, max_duration) ==
    LET total == total_duration(script)
        segments == script.segments
    IN IF float_le(total, max_duration)
       THEN [segments |-> segments, exc |-> "none"]
       ELSE IF total[1] = 0
       THEN [segments |-> segments, exc |-> "ZeroDivisionError"]
       ELSE [segments |->
                [i \in 1..Len(segments) |->
                    IF i = Len(segments) THEN segments[i]
                    ELSE [segments[i] EXCEPT
                            !.duration =
                                float_mul(@, speed_factor(max_duration,
                                                          total))]],
             exc |-> "none"]

\* _adjust_final_timing, lines 288-304: the division of line 297 raises
\* when the total is zero
adjust_final_timing(script, max_duration) ==
    LET total == total_duration(script)
        segments == script.segments
    IN IF float_le(total, max_duration)
       THEN [segments |-> segments, exc |-> "none"]
       ELSE IF total[1] = 0
       THEN [segments |-> segments, exc |-> "ZeroDivisionError"]
       ELSE [segments |->
                [i \in 1..Len(segments) |->
                    [segments[i] EXCEPT
                        !.duration =
                            float_mul(@, speed_factor(max_duration, total))]],
             exc |-> "none"]

RECURSIVE collapse_spaces(_)
\* re.sub(r'\s+', ' ', text)
collapse_spaces(text) ==
    IF text = <<>> THEN <<>>
    ELSE IF Head(text) \in Whitespace
         THEN <<" ">> \o collapse_spaces(lstrip(text))
         ELSE <<Head(text)>> \o collapse_spaces(Tail(text))

RECURSIVE replace_pauses(_)
\* text.replace('<pause>', '... ') and re.sub(r'<pause:([\d.]+)>', '... ', text)
replace_pauses(text) ==
    IF text = <<>> THEN <<>>
    ELSE (IF Head(text) \in {Pause, PauseComma, PauseConj}
          THEN <<".", ".", ".", " ">>
          ELSE <<Head(text)>>)
         \o replace_pauses(Tail(text))

\* _prepare_text_for_tts, lines 337-346
prepare_text_for_tts(text) == strip(collapse_spaces(replace_pauses(text)))

\* _calculate_speaking_rate, lines 348-361
calculate_speaking_rate(segment) ==
    CASE segment.emotion = "excited" -> Float(11, 10)
      [] segment.emotion = "happy" -> Float(21, 20)
      [] segment.emotion = "curious" -> Float(19, 20)
      [] segment.emotion = "surprised" -> Float(23, 20)
      [] OTHER -> Float(1, 1)

\* _generate_pitch_contour, lines 363-374
generate_pitch_contour(segment) ==
    CASE segment.emotion = "excited" ->
             <<<<Float(0, 1), Float(11, 10)>>, <<Float(1, 2), Float(6, 5)>>,
               <<Float(1, 1), Float(23, 20)>>>>
      [] segment.emotion = "happy" ->
             <<<<Float(0, 1), Float(21, 20)>>, <<Float(1, 2), Float(11, 10)>>,
               <<Float(1, 1), Float(21, 20)>>>>
      [] segment.emotion = "curious" ->
             <<<<Float(0, 1), Float(1, 1)>>, <<Float(4, 5), Float(11, 10)>>,
               <<Float(1, 1), Float(6, 5)>>>>
      [] segment.emotion = "surprised" ->
             <<<<Float(0, 1), Float(1, 1)>>, <<Float(3, 10), Float(13, 10)>>,
               <<Float(1, 1), Float(11, 10)>>>>
      [] segment.emotion = "neutral" ->
             <<<<Float(0, 1), Float(1, 1)>>, <<Float(1, 2), Float(1, 1)>>,
               <<Float(1, 1), Float(19, 20)>>>>
      [] OTHER ->
             <<<<Float(0, 1), Float(1, 1)>>, <<Float(1, 1), Float(1, 1)>>>>

\* _generate_volume_adjustments, lines 376-384: a dict from the emphasis
\* words to 1.2
generate_volume_adjustments(segment) ==
    [w \in {segment.emphasis_words[i] : i \in 1..Len(segment.emphasis_words)}
        |-> Float(6, 5)]

\* faulty variant: the entries of segments without emphasis words are
\* left out
export_for_tts_emphasised(script) ==
    LET emphasised == SelectSeq(script.segments,
                                LAMBDA segment : segment.emphasis_words # <<>>)
    IN [i \in 1..Len(emphasised) |->
           LET segment == emphasised[i]
           IN [id |-> segment.id,
               text |-> prepare_text_for_tts(segment.text),
               duration |-> segment.duration,
               emotion |-> segment.emotion,
               emphasis_words |-> segment.emphasis_words,
               speaking_rate |-> calculate_speaking_rate(segment),
               pitch_contour |-> generate_pitch_contour(segment),
               volume_adjustments |-> generate_volume_adjustments(segment)]]

\* export_for_tts, lines 306-335: reads the script, writes nothing
export_for_tts(script) ==
    [i \in 1..Len(script.segments) |->
        LET segment == script.segments[i]
        IN [id |-> segment.id,
            text |-> prepare_text_for_tts(segment.text),
            duration |-> segment.duration,
            emotion |-> segment.emotion,
            emphasis_words |-> segment.emphasis_words,
            speaking_rate |-> calculate_speaking_rate(segment),
            pitch_contour |-> generate_pitch_contour(segment),
            volume_adjustments |-> generate_volume_adjustments(segment)]]

(***************************************************************************)
(* The timing engine on its own: a ScriptProcessor built with a            *)
(* configuration, args, is given a Script, heap[1], and runs the five      *)
(* stages of process_script on it, in place; the processed script is then  *)
(* exported for TTS, twice.  hist keeps the segments as they were handed   *)
(* in (input), what stage 2 split (splits) and the segments as stage 5     *)
(* found them (timed); loc keeps the exported lists.                       *)
(***************************************************************************)
MaxTimedSegs == 2

Repeat(c, n) == [i \in 1..n |-> c]

\* one sentence
TextShort == <<"a", "a", "maru">>

\* four sentences
TextSentences == <<"a", "maru", "a", "maru", " ", "a", "maru", "a", "?">>

\* two phrases and no sentence ending
TextPhrases == Repeat("a", 6) \o <<"ten">> \o Repeat("a", 6)

\* neither a sentence ending nor a phrase marker
TextPlain == Repeat("a", 12)

\* an emphasis word, two exclamation marks and a conjunction
TextEmphasis == <<"sai", "kou", "!", "!", "sa", "te", "a">>

TimingSegments ==
    {ScriptSegment(0, TextShort, None),
     ScriptSegment(0, TextShort, Float(-1, 1)),
     ScriptSegment(0, TextShort, Float(40, 1)),
     ScriptSegment(0, TextSentences, Float(3, 1)),
     ScriptSegment(0, TextPhrases, Float(3, 1)),
     ScriptSegment(0, TextPlain, Float(3, 1)),
     ScriptSegment(0, TextPlain, Float(40, 1)),
     ScriptSegment(0, TextEmphasis, Float(3, 1)),
     [ScriptSegment(0, TextEmphasis, Float(3, 1))
         EXCEPT !.emotion = "happy",
                !.emphasis_words = <<<<"sai", "kou">>, <<"a", "a">>>>]}

\* the segments of a script, with the ids 1, 2, ...
numbered(segments) ==
    [i \in 1..Len(segments) |-> [segments[i] EXCEPT !.id = i]]

TimingConfigs ==
    {[reading_speed |-> rs, max_segment_duration |-> ms, max_duration |-> md] :
        rs \in {Absent, <<"set", "fast">>},
        ms \in {Absent, <<"set", Float(2, 1)>>},
        md \in {Absent, <<"set", Float(4, 1)>>}}
    \cup {[reading_speed |-> <<"set", "bogus">>,
           max_segment_duration |-> Absent, max_duration |-> Absent]}

\* five segments of 8, 10, 12, 8 and 7 seconds whose texts take that long
Script45 ==
    <<ScriptSegment(1, Repeat("a", 41), Float(8, 1)),
      ScriptSegment(2, Repeat("a", 51), Float(10, 1)),
      ScriptSegment(3, Repeat("a", 62), Float(12, 1)),
      ScriptSegment(4, Repeat("a", 41), Float(8, 1)),
      ScriptSegment(5, Repeat("a", 35), Float(7, 1))>>

\* 64 characters in four sentences
Text64 ==
    Repeat("a", 15) \o <<"maru">> \o Repeat("a", 15) \o <<"maru">>
    \o Repeat("a", 15) \o <<"maru">> \o Repeat("a", 15) \o <<"maru">>

\* "minasan, taijuukei ni noru no ga kowai hito~?": 18 characters, a comma
\* after the fourth and a full-width question mark at the end
TextScale ==
    <<"mi", "na", "sa", "n", "ten", "tai", "juu", "kei", "ni", "jou", "ru",
      "no", "ga", "kowa", "i", "hito", "nami", "zen?">>

\* "sugoi?" has an excitement word and a question mark, "nanto ureshii" a
\* surprise word and a joy word; the third segment comes with an emotion
\* and an emphasis word of its own
MixedEmotions ==
    <<ScriptSegment(1, <<"su", "go", "i", "?">>, Float(1, 1)),
      ScriptSegment(2, <<"na", "n", "to", "ure", "shi", "i">>, Float(1, 1)),
      [ScriptSegment(3, <<"su", "go", "i", "?">>, Float(1, 1))
          EXCEPT !.emotion = "calm", !.emphasis_words = <<<<"go">>>>]>>

\* two phrases with a description, an emotion and an emphasis word that
\* occurs in both phrases
EmphasisedPhrases ==
    [ScriptSegment(1, TextPhrases, Float(3, 1))
        EXCEPT !.visual_description = "vis",
               !.emotion = "happy",
               !.emphasis_words = <<<<"a", "a">>>>]

ScenarioInputs ==
    {[segments |-> Script45,
      config |-> [reading_speed |-> Absent, max_segment_duration |-> Absent,
                  max_duration |-> md]] :
        md \in {<<"set", Float(30, 1)>>, <<"set", Float(60, 1)>>}}
    \cup
    {[segments |-> <<ScriptSegment(1, Text64, d)>>,
      config |-> [reading_speed |-> <<"set", "normal">>,
                  max_segment_duration |-> <<"set", Float(15, 1)>>,
                  max_duration |-> Absent]] :
        d \in {Float(0, 1), Float(12, 1), Float(29, 2), Float(16, 1)}}
    \cup
    {[segments |-> <<EmphasisedPhrases>>,
      config |-> [reading_speed |-> Absent,
                  max_segment_duration |-> <<"set", Float(2, 1)>>,
                  max_duration |-> Absent]]}
    \cup
    {[segments |-> <<ScriptSegment(1, TextScale, Float(8, 1))>>,
      config |-> [reading_speed |-> <<"set", "normal">>,
                  max_segment_duration |-> Absent,
                  max_duration |-> Absent]]}
    \cup
    {[segments |-> MixedEmotions,
      config |-> [reading_speed |-> Absent,
                  max_segment_duration |-> Absent,
                  max_duration |-> Absent]]}

TimingInputs ==
    {[segments |-> numbered(s), config |-> c] :
        s \in SeqsUpTo(TimingSegments, MaxTimedSegs), c \in TimingConfigs}
    \cup ScenarioInputs

TimedScript(segments) ==
    [GeneratedScript(0, "svc0", "url0", "REVIEW", 0, 0)
        EXCEPT !.segments = segments]

TimingInit ==
    /\ pc = "validate_timing"
    /\ op = "process_script"
    /\ \E in \in TimingInputs :
         /\ heap = <<TimedScript(in.segments)>>
         /\ args = in.config
         /\ hist = [input |-> in.segments, splits |-> <<>>, timed |-> <<>>]
         /\ nextId = Len(in.segments) + 1
    /\ cur = 0
    /\ ld = 0
    /\ loc = [exports |-> <<>>]
    /\ calls = CallsZero
    /\ excs = <<>>
    /\ result = <<"none">>
    /\ files = <<>>
    /\ fs = {}
    /\ clock = 0
    /\ ytReady = FALSE
    /\ up = UpNone
    /\ batch = BatchNone

\* an exception leaves process_script (handle_errors logs and re-raises)
process_raises(exc) ==
    /\ pc' = "raised"
    /\ result' = <<"raise", exc>>
    /\ excs' = Append(excs, exc)

\* stage 1, line 49
ValidateTiming ==
    /\ pc = "validate_timing"
    /\ LET r == validate_timing(heap[1].segments, 1, default_speed(args))
       IN /\ heap' = [heap EXCEPT ![1].segments = r.segments]
          /\ IF r.exc = "none"
             THEN /\ pc' = "split_long_segments"
                  /\ UNCHANGED <<result, excs>>
             ELSE process_raises(r.exc)
    /\ UNCHANGED <<op, cur, ld, args, loc, calls, files, fs, clock, nextId,
                   ytReady, up, batch, hist>>

\* stage 2, line 51
SplitLongSegments ==
    /\ pc = "split_long_segments"
    /\ LET r == split_long_segments(heap[1].segments, 1,
                    Config_get(args, "max_segment_duration", Float(15, 1)),
                    default_speed(args), nextId)
       IN /\ heap' = [heap EXCEPT ![1].segments = r.new_segments]
          /\ hist' = [hist EXCEPT !.splits = r.splits]
          /\ nextId' = r.next
    /\ pc' = "add_natural_pauses"
    /\ UNCHANGED <<op, cur, ld, args, loc, calls, excs, result, files, fs,
                   clock, ytReady, up, batch>>

\* faulty variant: stage 3 hands over to stage 5, stage 4 is left out
AddNaturalPauses_then_final ==
    /\ pc = "add_natural_pauses"
    /\ heap' = [heap EXCEPT ![1].segments = add_natural_pauses(@)]
    /\ pc' = "adjust_final_timing"
    /\ UNCHANGED <<op, cur, ld, args, loc, calls, excs, result, files, fs,
                   clock, nextId, ytReady, up, batch, hist>>

\* stage 3, line 54
AddNaturalPauses ==
    /\ pc = "add_natural_pauses"
    /\ heap' = [heap EXCEPT ![1].segments = add_natural_pauses(@)]
    /\ pc' = "optimize_delivery"
    /\ UNCHANGED <<op, cur, ld, args, loc, calls, excs, result, files, fs,
                   clock, nextId, ytReady, up, batch, hist>>

\* stage 4, line 57
OptimizeDelivery ==
    /\ pc = "optimize_delivery"
    /\ heap' = [heap EXCEPT ![1].segments = optimize_delivery(@)]
    /\ hist' = [hist EXCEPT !.timed = heap'[1].segments]
    /\ pc' = "adjust_final_timing"
    /\ UNCHANGED <<op, cur, ld, args, loc, calls, excs, result, files, fs,
                   clock, nextId, ytReady, up, batch>>

\* stage 5 and the return, lines 60-66
AdjustFinalTiming ==
    /\ pc = "adjust_final_timing"
    /\ LET r == adjust_final_timing(heap[1],
                    Config_get(args, "max_duration", Float(60, 1)))
       IN /\ heap' = [heap EXCEPT ![1].segments = r.segments]
          /\ IF r.exc = "none"
             THEN /\ pc' = "processed"
                  /\ result' = <<"return", 1>>
                  /\ excs' = excs
             ELSE process_raises(r.exc)
    /\ UNCHANGED <<op, cur, ld, args, loc, calls, files, fs, clock, nextId,
                   ytReady, up, batch, hist>>

\* export_for_tts on the processed script
ExportForTts ==
    /\ pc = "processed"
    /\ Len(loc.exports) < 2
    /\ loc' = [exports |-> Append(loc.exports, export_for_tts(heap[1]))]
    /\ op' = "export_for_tts"
    /\ UNCHANGED <<pc, heap, cur, ld, args, calls, excs, result, files, fs,
                   clock, nextId, ytReady, up, batch, hist>>

TimingNext ==
    \/ ValidateTiming
    \/ SplitLongSegments
    \/ AddNaturalPauses
    \/ OptimizeDelivery
    \/ AdjustFinalTiming
    \/ ExportForTts

TimingSpec == TimingInit /\ [][TimingNext]_vars

(***************************************************************************)
(* The segment list of a Script (src/src/models/script.py): heap[1] is a   *)
(* Script whose segments are added, removed, reordered, reloaded from a    *)
(* dictionary and processed.  uuid4() is the next unused id.               *)
(***************************************************************************)
MaxScriptSegs == 2

\* the ids uuid4() hands out before the model stops making new segments
MaxSegId == 4

\* the calls of process_script on the one script (clock counts them)
MaxProcessCalls == 1

\* Script.add_segment, lines 95-97
add_segment(script, segment) ==
    [script EXCEPT !.segments = Append(@, segment)]

\* Script.remove_segment, lines 99-103: the script and the returned bool
remove_segment(script, segment_id) ==
    LET kept == SelectSeq(script.segments, LAMBDA s : s.id # segment_id)
    IN [script |-> [script EXCEPT !.segments = kept],
        result |-> Len(kept) < Len(script.segments)]

\* "segment_map = {s.id: s for s in self.segments}", line 118: a later
\* segment replaces an earlier one of the same id
segment_map(segments, sid) ==
    LET at == {i \in 1..Len(segments) : segments[i].id = sid}
    IN segments[CHOOSE i \in at : \A j \in at : j <= i]

\* Script.reorder_segments, lines 112-126: the script and the returned bool
reorder_segments(script, segment_ids) ==
    IF Len(segment_ids) # Len(script.segments)
    THEN [script |-> script, result |-> FALSE]
    ELSE IF ~(\A k \in 1..Len(segment_ids) :
                \E i \in 1..Len(script.segments) :
                    script.segments[i].id = segment_ids[k])
    THEN [script |-> script, result |-> FALSE]
    ELSE [script |-> [script EXCEPT !.segments =
                        [k \in 1..Len(segment_ids) |->
                            segment_map(script.segments, segment_ids[k])]],
          result |-> TRUE]

\* the segments a caller builds: a short one and one that stage 2 splits
SegTexts == {<<TextShort, Float(1, 1)>>, <<TextSentences, Float(3, 1)>>}

\* the configuration of the processor: a per-segment maximum of 2 seconds
SegConfig ==
    [reading_speed |-> Absent, max_segment_duration |-> <<"set", Float(2, 1)>>,
     max_duration |-> Absent]

SegInit ==
    /\ pc = "seg"
    /\ op = "none"
    /\ \E n \in 0..2 :
         /\ heap = <<TimedScript([i \in 1..n |->
                                    ScriptSegment(i, TextShort, Float(1, 1))])>>
         /\ nextId = n + 1
    /\ cur = 0
    /\ ld = 0
    /\ args = SegConfig
    /\ loc = LocNone
    /\ calls = CallsZero
    /\ excs = <<>>
    /\ result = <<"none">>
    /\ files = <<>>
    /\ fs = {}
    /\ clock = 0
    /\ ytReady = FALSE
    /\ up = UpNone
    /\ batch = BatchNone
    /\ hist = [input |-> <<>>, splits |-> <<>>, timed |-> <<>>]

\* script.add_segment(ScriptSegment(text=..., duration=...)): the id is a
\* new uuid4
SegAddNew ==
    /\ pc = "seg"
    /\ Len(heap[1].segments) < MaxScriptSegs
    /\ nextId <= MaxSegId
    /\ \E t \in SegTexts :
         heap' = <<add_segment(heap[1], ScriptSegment(nextId, t[1], t[2]))>>
    /\ nextId' = nextId + 1
    /\ op' = "add_segment"
    /\ result' = <<"return", None>>
    /\ UNCHANGED <<pc, cur, ld, args, loc, calls, excs, files, fs, clock,
                   ytReady, up, batch, hist>>

\* script.add_segment(segment) with a segment the caller already holds:
\* one of the script's own, or a copy that carries its id
SegAddHeld ==
    /\ pc = "seg"
    /\ Len(heap[1].segments) < MaxScriptSegs
    /\ \E i \in 1..Len(heap[1].segments) :
         heap' = <<add_segment(heap[1], heap[1].segments[i])>>
    /\ op' = "add_segment"
    /\ result' = <<"return", None>>
    /\ UNCHANGED <<pc, cur, ld, args, loc, calls, excs, files, fs, clock,
                   nextId, ytReady, up, batch, hist>>

SegRemove ==
    /\ pc = "seg"
    /\ \E sid \in 1..nextId :
         LET r == remove_segment(heap[1], sid)
         IN /\ heap' = <<r.script>>
            /\ result' = <<"return", r.result>>
    /\ op' = "remove_segment"
    /\ UNCHANGED <<pc, cur, ld, args, loc, calls, excs, files, fs, clock,
                   nextId, ytReady, up, batch, hist>>

\* script.reorder_segments(segment_ids), on scripts of up to
\* MaxScriptSegs segments
SegReorder ==
    /\ pc = "seg"
    /\ Len(heap[1].segments) <= MaxScriptSegs
    /\ \E ids \in SeqsUpTo({heap[1].segments[i].id :
                               i \in 1..Len(heap[1].segments)} \cup {nextId},
                           MaxScriptSegs) :
         LET r == reorder_segments(heap[1], ids)
         IN /\ heap' = <<r.script>>
            /\ result' = <<"return", r.result>>
    /\ op' = "reorder_segments"
    /\ UNCHANGED <<pc, cur, ld, args, loc, calls, excs, files, fs, clock,
                   nextId, ytReady, up, batch, hist>>

\* Script.from_dict(script.to_dict()): the ids are the stored ones
SegFromDict ==
    /\ pc = "seg"
    /\ heap' = <<[heap[1] EXCEPT !.segments =
                    [i \in 1..Len(@) |->
                        ScriptSegment_from_dict(ScriptSegment_to_dict(@[i]))]]>>
    /\ op' = "from_dict"
    /\ result' = <<"return", None>>
    /\ UNCHANGED <<pc, cur, ld, args, loc, calls, excs, files, fs, clock,
                   nextId, ytReady, up, batch, hist>>

\* processor.process_script(script) is called: its five stages run next,
\* on the script as it is
SegProcess ==
    /\ pc = "seg"
    /\ clock < MaxProcessCalls
    /\ clock' = clock + 1
    /\ pc' = "validate_timing"
    /\ op' = "process_script"
    /\ hist' = [input |-> heap[1].segments, splits |-> <<>>, timed |-> <<>>]
    /\ result' = <<"none">>
    /\ UNCHANGED <<heap, cur, ld, args, loc, calls, excs, files, fs, nextId,
                   ytReady, up, batch>>

\* process_script has returned the script
SegProcessed ==
    /\ pc = "processed"
    /\ pc' = "seg"
    /\ hist' = [input |-> <<>>, splits |-> <<>>, timed |-> <<>>]
    /\ UNCHANGED <<op, heap, cur, ld, args, loc, calls, excs, result, files,
                   fs, clock, nextId, ytReady, up, batch>>

SegNext ==
    \/ SegAddNew
    \/ SegAddHeld
    \/ SegRemove
    \/ SegReorder
    \/ SegFromDict
    \/ SegProcess
    \/ ValidateTiming
    \/ SplitLongSegments
    \/ AddNaturalPauses
    \/ OptimizeDelivery
    \/ AdjustFinalTiming
    \/ SegProcessed

SegSpec == SegInit /\ [][SegNext]_vars

(***************************************************************************)
(* Two writers and one project.json (Project.save_to_file, project.py      *)
(* lines 203-215).  A writer opens the file for writing, which truncates   *)
(* it, writes its document in chunks at its own file offset, as the        *)
(* buffered file object flushes them, and closes.  files is the content of *)
(* the file, args the document each writer writes, loc each writer's       *)
(* position in save_to_file and its offset, hist the order in which the    *)
(* writers finished.                                                       *)
(***************************************************************************)
MaxChunks == 3

Writers == {1, 2}

\* json.dumps(self.to_dict()) of writer w, in the n chunks it is written in
document(w, n) == [i \in 1..n |-> <<w, i>>]

\* the byte the file system puts where nothing was written
Hole == <<0, 0>>

\* f.write(chunk) at offset pos of a file opened with 'w' (not append): the
\* chunk replaces what is there; a gap before it reads as holes
write_at(content, pos, chunk) ==
    [i \in 1..(IF pos + 1 > Len(content) THEN pos + 1 ELSE Len(content)) |->
        IF i = pos + 1 THEN chunk
        ELSE IF i <= Len(content) THEN content[i]
        ELSE Hole]

\* json.load(f) succeeds: the content is one complete document
json_loads(content) ==
    \E w \in Writers, n \in 1..MaxChunks : content = document(w, n)

SaveInit ==
    /\ pc = "save"
    /\ op = "save_to_file"
    /\ \E n1, n2 \in 1..MaxChunks :
         args = [w \in Writers |-> document(w, IF w = 1 THEN n1 ELSE n2)]
    /\ loc = [w \in Writers |-> [at |-> "start", offset |-> 0]]
    /\ files = <<>>
    /\ hist = <<>>
    /\ heap = <<>>
    /\ cur = 0
    /\ ld = 0
    /\ calls = CallsZero
    /\ excs = <<>>
    /\ result = <<"none">>
    /\ fs = {}
    /\ clock = 0
    /\ nextId = 1
    /\ ytReady = FALSE
    /\ up = UpNone
    /\ batch = BatchNone

\* "with open(file_path, 'w', encoding='utf-8') as f", line 212
SaveOpen(w) ==
    /\ pc = "save"
    /\ loc[w].at = "start"
    /\ files' = <<>>
    /\ loc' = [loc EXCEPT ![w] = [at |-> "open", offset |-> 0]]
    /\ UNCHANGED <<pc, op, heap, cur, ld, args, calls, excs, result, fs,
                   clock, nextId, ytReady, up, batch, hist>>

\* json.dump(...), line 213: the next chunk reaches the file
SaveWrite(w) ==
    /\ pc = "save"
    /\ loc[w].at = "open"
    /\ loc[w].offset < Len(args[w])
    /\ files' = write_at(files, loc[w].offset, args[w][loc[w].offset + 1])
    /\ loc' = [loc EXCEPT ![w].offset = @ + 1]
    /\ UNCHANGED <<pc, op, heap, cur, ld, args, calls, excs, result, fs,
                   clock, nextId, ytReady, up, batch, hist>>

\* the end of the with block: the file is closed and save_to_file returns
SaveClose(w) ==
    /\ pc = "save"
    /\ loc[w].at = "open"
    /\ loc[w].offset = Len(args[w])
    /\ loc' = [loc EXCEPT ![w].at = "done"]
    /\ hist' = Append(hist, w)
    /\ UNCHANGED <<pc, op, heap, cur, ld, args, calls, excs, result, files,
                   fs, clock, nextId, ytReady, up, batch>>

SaveNext ==
    \E w \in Writers :
        \/ SaveOpen(w)
        \/ SaveWrite(w)
        \/ SaveClose(w)

SaveSpec == SaveInit /\ [][SaveNext]_vars

(***************************************************************************)
(* Properties                                                              *)
(***************************************************************************)
\* create_and_post has just returned: to the caller of the command, or to
\* the loop of batch_create
CreateReturned ==
    /\ cur > 0
    /\ \/ op \in {"create_and_post", "resume_project"} /\ pc = "idle"
       \/ op = "batch_create" /\ pc = "batch_loop"

\* the dictionary it returned
CreateResult ==
    IF op = "batch_create" THEN batch.results[Len(batch.results)]
    ELSE result[2]

\* resume_project has returned and the file it was given holds a project
Resumed == op = "resume_project" /\ pc = "idle" /\ 0 \in DOMAIN files

\* the final video the saved project refers to exists
SavedVideoExists == path_exists(opt_str_path(files[0].final_video_path), fs)

\* C1: in the orchestrator, every change of a Project's status moves it to
\* the immediate successor in the chain DRAFT .. UPLOADED, or to FAILED.
C1_StatusStepsForward ==
    [][\A h \in 1..Len(heap) :
          (h <= Len(heap') /\ heap'[h].status # heap[h].status)
              => \/ heap'[h].status = "FAILED"
                 \/ IsSuccessor(heap[h].status, heap'[h].status)]_vars

\* a create_and_post with auto_post went through the whole chain
C1_Witness ==
    /\ op = "create_and_post" /\ pc = "idle"
    /\ heap[cur].status = "UPLOADED"
    /\ calls["save_to_file"] = 1

PhaseOrder == <<"generate_script", "process_script", "export_for_tts",
                "synthesize_script", "create_thumbnail", "compose_video",
                "save_to_file">>

\* what holds when create_and_post returns after a phase raised
C2_FailureReturned ==
    (CreateReturned /\ excs # <<>>)
        => /\ result[1] # "raise"
           /\ ~CreateResult.success
           /\ Len(excs) = 1
           /\ CreateResult.error = Str(ExcMessage(excs[1]))
           /\ CreateResult.project = cur
           /\ heap[cur].status = "FAILED"
           /\ \A c \in Collaborators \ {"generate_segment_visuals"} :
                 calls[c] <= 1
           /\ calls["generate_segment_visuals"]
                 <= IF heap[cur].script = None THEN 0
                    ELSE Len(heap[cur].script[2].segments)
           /\ \A i \in 2..Len(PhaseOrder) :
                 calls[PhaseOrder[i]] > 0 => calls[PhaseOrder[i - 1]] > 0

\* the step that records FAILED returns at once, and once FAILED is
\* recorded no phase runs again for that project: the project is left as
\* it is, and the only call that can follow is the upload of another
\* project of the batch
C2_NothingAfterFailure ==
    /\ (cur > 0 /\ cur' = cur /\ heap[cur].status # "FAILED"
            /\ heap'[cur].status = "FAILED")
          => CreateReturned'
    /\ (cur > 0 /\ cur' = cur /\ heap[cur].status = "FAILED")
          => /\ heap'[cur] = heap[cur]
             /\ \A c \in Collaborators \ {"upload_to_youtube"} :
                   calls'[c] = calls[c]
             /\ calls'["upload_to_youtube"] # calls["upload_to_youtube"]
                   => up.h # cur

\* C2: when a phase of create_and_post raises, create_and_post does not
\* raise: it records FAILED, returns success = False with the message of
\* the exception, runs no later phase and does not retry the failed one.
C2_PhaseFailureIsFinal ==
    []C2_FailureReturned /\ [][C2_NothingAfterFailure]_vars

\* composition raised after the first four phases had run
C2_Witness ==
    /\ CreateReturned
    /\ excs = <<"VideoProcessingError">>
    /\ calls["compose_video"] = 1
    /\ calls["save_to_file"] = 0
    /\ heap[cur].status = "FAILED"

\* C3: resuming a READY_TO_UPLOAD project whose final video is unset or
\* missing fails with a ResourceNotFoundError, calls no collaborator and
\* leaves the status READY_TO_UPLOAD.
C3_MissingVideoIsResourceNotFound ==
    (Resumed /\ files[0].status = "ready_to_upload" /\ ~SavedVideoExists)
        => /\ \E i \in 1..Len(excs) : excs[i] = "ResourceNotFoundError"
           /\ result[1] = "dict" /\ ~result[2].success
           /\ calls = CallsZero
           /\ heap[ld].status = "READY_TO_UPLOAD"

C5_ResumeDraftKeepsIdentity ==
    (op = "resume_project" /\ ld > 0 /\ cur > 0)
        => /\ heap[cur].id = heap[ld].id
           /\ heap[cur].service_name = heap[ld].service_name
           /\ heap[cur].affiliate_url = heap[ld].affiliate_url
           /\ heap[cur].name = heap[ld].name

\* the upload of the resumed project returned success
ResumeUploadSucceeded ==
    /\ result[1] = "dict"
    /\ result[2].upload_result # Absent
    /\ result[2].upload_result[2].success

\* C6: resuming a READY_TO_UPLOAD project whose final video exists calls
\* the upload only; the status is UPLOADED exactly when the upload
\* succeeded, else it stays READY_TO_UPLOAD and success is false.
C6_ResumeReadyUploadsOnly ==
    (Resumed /\ files[0].status = "ready_to_upload" /\ SavedVideoExists)
        => /\ calls = [CallsZero EXCEPT !["upload_to_youtube"] = 1]
           /\ cur = 0
           /\ result[1] = "dict"
           /\ heap[1].status = "UPLOADED" <=> ResumeUploadSucceeded
           /\ result[2].success <=> ResumeUploadSucceeded
           /\ ~ResumeUploadSucceeded => heap[1].status = "READY_TO_UPLOAD"

\* the resumed upload succeeded
C6_Witness ==
    /\ Resumed
    /\ files[0].status = "ready_to_upload"
    /\ heap[1].status = "UPLOADED"
    /\ heap[1].youtube_video_id = Str(VideoId(0))
    /\ result[2].success

\* C7: update_status accepts every target in every status; after it the
\* status is the target and updated_at is the time of the call; the status
\* is always one of the nine members.
C7_UpdateStatusNeverRejects ==
    pc = "api"
        => /\ \A t \in ProjectStatus : ENABLED ApiUpdateStatus(t)
           /\ heap[1].status \in ProjectStatus
           /\ op = "update_status"
                 => /\ heap[1].status = hist.target
                    /\ heap[1].updated_at = DateTime(hist.at)

\* a backward move, UPLOADED to DRAFT, made after time has passed
C7_Witness ==
    /\ pc = "api"
    /\ op = "update_status"
    /\ hist.before = "UPLOADED"
    /\ hist.target = "DRAFT"
    /\ hist.at > 0
    /\ heap[1].status = "DRAFT"

\* C8: terminal statuses are absorbing under the orchestrator (FAILED is
\* entered from non-terminal statuses only, UPLOADED is never left) and no
\* orchestrator operation sets ARCHIVED.
C8_TerminalAbsorbing ==
    [][\A h \in 1..Len(heap) :
          h <= Len(heap')
              => /\ heap[h].status \in {"UPLOADED", "FAILED", "ARCHIVED"}
                       => heap'[h].status = heap[h].status
                 /\ heap'[h].status = "ARCHIVED"
                       => heap[h].status = "ARCHIVED"]_vars

\* C9: when create_and_post returns with status READY_TO_UPLOAD, UPLOADED
\* or FAILED, the project has been saved and the document on disk records
\* that status.
C9_PersistedAtReturn ==
    (CreateReturned
        /\ heap[cur].status \in {"READY_TO_UPLOAD", "UPLOADED", "FAILED"})
        => /\ heap[cur].id \in DOMAIN files
           /\ files[heap[cur].id].status = StatusValue(heap[cur].status)

\* C10: load_from_file(save_to_file(p)) equals p, serializing the loaded
\* project again gives the document on disk, and the status is stored as
\* its lowercase value and read back as the same member.
C10_RoundTrip ==
    (pc = "rt" /\ op = "load_from_file" /\ 0 \in DOMAIN files)
        => /\ result[1] = "return"
           /\ Len(heap) = 2
           /\ heap[2] = heap[1]
           /\ Project_to_dict(heap[2], fs) = files[0]
           /\ files[0].status = StatusValue(heap[1].status)
           /\ heap[2].status = heap[1].status

\* an ARCHIVED project with a script, clips and a final video was loaded
C10_Witness ==
    /\ pc = "rt"
    /\ op = "load_from_file"
    /\ Len(heap) = 2
    /\ heap[2].status = "ARCHIVED"
    /\ files[0].status = "archived"
    /\ heap[2].script # None
    /\ Len(heap[2].audio_clips) = MaxClips
    /\ Len(heap[2].video_clips) = MaxClips
    /\ heap[2].final_video_path = Path(VideoFile(0))

\* ---------------------------------------------------------------------
\* The timing engine (TimingSpec)

\* process_script returned
Processed == pc = "processed"

\* the reading speed process_script worked with
processed_speed == READING_SPEEDS[default_speed(args)]

\* stage 5 rescaled the durations: the total after stages 1-4 was more
\* than the ceiling
Rescaled ==
    float_gt(float_sum([i \in 1..Len(hist.timed) |-> hist.timed[i].duration]),
             Config_get(args, "max_duration", Float(60, 1)))

\* the characters of a text that are spoken, its pause markers left out
spoken(text) ==
    SelectSeq(text, LAMBDA c : c \notin {Pause, PauseComma, PauseConj})

\* C11 (as stated, refuted): after process_script every segment's duration
\* is non-negative, and every segment that stage 5 did not rescale has a
\* duration within the 2-second tolerance of the duration expected from
\* its character count at the configured reading speed.
C11_DurationsNonNegativeAndTimed ==
    Processed =>
        \A i \in 1..Len(heap[1].segments) :
            LET segment == heap[1].segments[i]
            IN /\ float_le(Float(0, 1), segment.duration)
               /\ ~Rescaled =>
                    ~way_off(segment.duration,
                             expected_duration(spoken(segment.text),
                                               processed_speed))

\* the configured per-segment maximum, line 92
max_segment_duration == Config_get(args, "max_segment_duration", Float(15, 1))

\* C12 (as stated, refuted): after process_script every segment of the
\* returned Script has a duration no greater than the configured
\* per-segment maximum, the pause increments of stage 3 included.
C12_SegmentsWithinMaximum ==
    Processed =>
        \A i \in 1..Len(heap[1].segments) :
            float_le(heap[1].segments[i].duration, max_segment_duration)

\* the configured ceiling of the total duration, line 290
max_duration == Config_get(args, "max_duration", Float(60, 1))

\* the sum of the durations of a list of segments
durations_total(segments) ==
    float_sum([i \in 1..Len(segments) |-> segments[i].duration])

\* C13 (as stated, refuted): for every Script whose total duration before
\* process_script exceeds the configured ceiling, the total duration after
\* process_script equals the ceiling.
C13_StoredTotalAboveCeiling ==
    (Processed /\ float_gt(durations_total(hist.input), max_duration))
        => durations_total(heap[1].segments) = max_duration

\* C13 (amended): for every Script whose total duration after stages 1-4
\* exceeds the configured ceiling, the total duration after process_script
\* equals the ceiling; otherwise it is the total after stages 1-4.
C13_TimedTotalAboveCeiling ==
    Processed =>
        durations_total(heap[1].segments) =
            IF Rescaled THEN max_duration ELSE durations_total(hist.timed)

\* a script stored above the ceiling, still above it after stages 1-4, was
\* brought down to the ceiling
C13_Witness ==
    /\ Processed
    /\ Rescaled
    /\ float_gt(durations_total(hist.input), max_duration)
    /\ Len(heap[1].segments) > 1
    /\ durations_total(heap[1].segments) = max_duration

\* the durations of a list of segments
durations(segments) == [i \in 1..Len(segments) |-> segments[i].duration]

\* stage 5 runs in this step and process_script returns
StageFiveStep == pc = "adjust_final_timing" /\ pc' = "processed"

\* C14: stage 5 changes no duration when the total after stages 1-4 is at
\* most the ceiling; otherwise it multiplies every duration by
\* ceiling/total, so the new total is the ceiling and the ratios between
\* the durations are kept (8, 10, 12, 8, 7 with ceiling 30 become
\* 16/3, 20/3, 8, 16/3, 14/3); texts, pause markers, order and count of
\* the segments are unchanged in both cases.
C14_StageFiveScalesUniformly ==
    [][StageFiveStep =>
        LET old == heap[1].segments
            new == heap'[1].segments
            total == durations_total(old)
        IN /\ Len(new) = Len(old)
           /\ \A i \in 1..Len(old) :
                new[i] = [old[i] EXCEPT !.duration = new[i].duration]
           /\ float_le(total, max_duration) => durations(new) = durations(old)
           /\ float_gt(total, max_duration) =>
                /\ \A i \in 1..Len(old) :
                     new[i].duration =
                        float_mul(old[i].duration,
                                  float_div(max_duration, total))
                /\ durations_total(new) = max_duration
                /\ \A i, j \in 1..Len(old) :
                     float_mul(new[i].duration, old[j].duration)
                        = float_mul(new[j].duration, old[i].duration)
                /\ durations(old) =
                        <<Float(8, 1), Float(10, 1), Float(12, 1),
                          Float(8, 1), Float(7, 1)>>
                   /\ max_duration = Float(30, 1)
                   => durations(new) =
                        <<Float(16, 3), Float(20, 3), Float(8, 1),
                          Float(16, 3), Float(14, 3)>>]_vars

\* the script of 8, 10, 12, 8 and 7 seconds came out of stage 5 with
\* ceiling 30
C14_Witness ==
    /\ Processed
    /\ max_duration = Float(30, 1)
    /\ durations(hist.timed) =
            <<Float(8, 1), Float(10, 1), Float(12, 1), Float(8, 1),
              Float(7, 1)>>
    /\ durations(heap[1].segments) =
            <<Float(16, 3), Float(20, 3), Float(8, 1), Float(16, 3),
              Float(14, 3)>>
    /\ [i \in 1..5 |-> heap[1].segments[i].text]
            = [i \in 1..5 |-> hist.timed[i].text]

\* stage 2 split the segment by sentences (line 114: more than one)
by_sentences(parent) == Len(split_into_sentences(parent.text)) > 1

\* every sentence of the parent's text, or every phrase on the fallback
\* path, fits the per-segment maximum on its own
pieces_fit(parent) ==
    IF by_sentences(parent)
    THEN LET sentences == split_into_sentences(parent.text)
         IN \A s \in 1..Len(sentences) :
                float_le(sentence_duration(sentences[s], processed_speed),
                         max_segment_duration)
    ELSE LET parts == split_markers(parent.text, phrase_markers, <<>>)
         IN \A p \in 1..Len(parts) :
                float_le(part_duration(parts[p], processed_speed),
                         max_segment_duration)

\* C15: no segment that stage 2 made by splitting, by sentences or by
\* phrases, is longer than the per-segment maximum, provided every
\* sentence (every phrase on the fallback path) of the parent's text fits
\* the maximum on its own.
C15_SplitPartsWithinMaximum ==
    \A k \in 1..Len(hist.splits) :
        pieces_fit(hist.splits[k].parent) =>
            \A i \in 1..Len(hist.splits[k].parts) :
                float_le(hist.splits[k].parts[i].duration,
                         max_segment_duration)

\* one script had a segment split by sentences and one split by phrases,
\* each into more than one part, all pieces fitting
C15_Witness ==
    /\ \E k \in 1..Len(hist.splits) :
         /\ by_sentences(hist.splits[k].parent)
         /\ pieces_fit(hist.splits[k].parent)
         /\ Len(hist.splits[k].parts) > 1
    /\ \E k \in 1..Len(hist.splits) :
         /\ ~by_sentences(hist.splits[k].parent)
         /\ pieces_fit(hist.splits[k].parent)
         /\ Len(hist.splits[k].parts) > 1

\* a text with its whitespace left out
without_whitespace(text) == SelectSeq(text, LAMBDA c : c \notin Whitespace)

RECURSIVE joined_texts(_)
\* the texts of a list of segments, one after the other
joined_texts(segments) ==
    IF segments = <<>> THEN <<>>
    ELSE Head(segments).text \o joined_texts(Tail(segments))

\* C16: when stage 2 splits a segment, by sentences or by phrases, there
\* is at least one derived segment and the derived texts, put together in
\* order and whitespace ignored, are the parent's text: nothing is
\* dropped, repeated or reordered, and what is left in the buffer after
\* the loop is the last derived segment.
C16_SplitKeepsText ==
    \A k \in 1..Len(hist.splits) :
        LET parent == hist.splits[k].parent
            parts == hist.splits[k].parts
        IN /\ Len(parts) >= 1
           /\ without_whitespace(joined_texts(parts))
                = without_whitespace(parent.text)

\* a segment whose text holds a blank was split into several segments,
\* and so was a segment split by phrases
C16_Witness ==
    /\ \E k \in 1..Len(hist.splits) :
         /\ Len(hist.splits[k].parts) > 1
         /\ \E i \in 1..Len(hist.splits[k].parent.text) :
                hist.splits[k].parent.text[i] = " "
         /\ without_whitespace(joined_texts(hist.splits[k].parts))
                = without_whitespace(hist.splits[k].parent.text)
    /\ \E k \in 1..Len(hist.splits) :
         /\ ~by_sentences(hist.splits[k].parent)
         /\ Len(hist.splits[k].parts) > 1

\* process_script was given one 64-character segment without emotion or
\* emphasis, a per-segment maximum of 15 s and the normal preset
OneLongSegment ==
    /\ Len(hist.input) = 1
    /\ len(hist.input[1].text) = 64
    /\ hist.input[1].emotion = "neutral"
    /\ hist.input[1].emphasis_words = <<>>
    /\ args.max_segment_duration = <<"set", Float(15, 1)>>
    /\ default_speed(args) = "normal"

\* C17 (as stated, refuted): one 64-character segment without emotion or
\* emphasis, processed with per-segment maximum 15 s under the normal
\* preset, yields at least 2 output segments, in original sentence order.
C17_LongSegmentIsSplit ==
    (Processed /\ OneLongSegment) => Len(heap[1].segments) >= 2

\* C17 (amended): that script yields exactly one output segment: whatever
\* duration was stored, stage 1 leaves at most 14.48 s, stage 2 does not
\* split, and the segment's spoken text is the original text.
C17_LongSegmentIsKept ==
    (Processed /\ OneLongSegment) =>
        /\ Len(heap[1].segments) = 1
        /\ hist.splits = <<>>
        /\ spoken(heap[1].segments[1].text) = hist.input[1].text
        /\ heap[1].segments[1].id = hist.input[1].id

\* the 64-character segment was stored with more than the maximum and
\* came back as one segment of 12.476 s plus four pauses
C17_Witness ==
    /\ Processed
    /\ OneLongSegment
    /\ float_gt(hist.input[1].duration, Float(15, 1))
    /\ durations(heap[1].segments) = <<Float(3761, 275)>>

\* export_for_tts is called and returns in this step
ExportStep == Len(loc'.exports) = Len(loc.exports) + 1

Raised == pc = "raised"

\* C19 (as stated, refuted): if process_script raises at any stage, the
\* input Script is as it was handed in: no segment's duration, text,
\* emotion or emphasis words and not the list of segments was changed by
\* the stages or loop iterations that ran before the failure.
C19_FailureLeavesScriptUnchanged ==
    Raised => heap[1].segments = hist.input

\* the call of process_script is over
ProcessEnded == Processed \/ Raised

\* the reading-speed preset is absent or not a key of READING_SPEEDS, or
\* the per-segment maximum or the ceiling is absent from the configuration
BadTimingConfig ==
    \/ args.reading_speed = Absent
    \/ args.reading_speed[2] \notin DOMAIN READING_SPEEDS
    \/ args.max_segment_duration = Absent
    \/ args.max_duration = Absent

\* C20 (as stated, refuted): process_script signals a ConfigurationError
\* when the configured reading-speed preset is absent or is not one of
\* slow, normal, fast and ultra_fast, or when the per-segment maximum or
\* the total-duration ceiling is absent from the configuration.
C20_BadConfigIsConfigurationError ==
    (ProcessEnded /\ BadTimingConfig)
        => result = <<"raise", "ConfigurationError">>

\* ---------------------------------------------------------------------
\* The segment list of a Script (SegSpec)

\* C21 (as stated, refuted): after any sequence of add_segment,
\* remove_segment, reorder_segments, from_dict and process_script, stage-2
\* splits included, no two segments of a Script share an id.
C21_SegmentIdsUnique ==
    \A i, j \in 1..Len(heap[1].segments) :
        heap[1].segments[i].id = heap[1].segments[j].id => i = j

\* ---------------------------------------------------------------------
\* Two writers of one project file (SaveSpec)

\* both calls of save_to_file have returned
BothSaved == \A w \in Writers : loc[w].at = "done"

\* C22 (as stated, refuted): persistence is last-writer-wins: when two
\* writers save different states of a Project to the same path, their
\* opens and writes interleaved, the file holds after both have finished
\* exactly the complete document of the writer that finished last, and
\* load_from_file succeeds on it.
C22_LastWriterWins ==
    BothSaved =>
        /\ files = args[hist[Len(hist)]]
        /\ json_loads(files)

\* ---------------------------------------------------------------------
\* Stage 3, the pause markers (TimingSpec)

\* the pause markers of a text, of all three kinds
count_markers(text) ==
    Len(SelectSeq(text, LAMBDA c : c \in {Pause, PauseComma, PauseConj}))

\* stage 3 runs
StageThreeStep == pc = "add_natural_pauses" /\ pc' = "optimize_delivery"

\* C23 (as stated, refuted): stage 3 increases each segment's duration by
\* 0.3 seconds times the number of pause markers it inserted into the
\* segment's text, the markers of all three kinds counted.
C23_EveryInsertedPauseCounts ==
    [][StageThreeStep =>
          \A i \in 1..Len(heap[1].segments) :
              heap'[1].segments[i].duration =
                  float_add(heap[1].segments[i].duration,
                      float_mul(Float(count_markers(heap'[1].segments[i].text)
                                      - count_markers(heap[1].segments[i].text), 1),
                                PauseDuration))]_vars

\* ---------------------------------------------------------------------
\* Stage 2, what a derived segment inherits (TimingSpec)

\* segments were made from the parent (line 210 returns the parent itself
\* when there is nothing to make them from)
derived(split) == split.parts # <<split.parent>>

\* C24 (as stated, refuted): every segment that stage 2 derives by
\* splitting, by sentences or by phrases, has the parent's
\* visual_description and emotion, and its emphasis_words are exactly the
\* parent's entries that occur in the derived text, in the parent's order.
C24_DerivedSegmentsInherit ==
    \A k \in 1..Len(hist.splits) :
        derived(hist.splits[k]) =>
            \A i \in 1..Len(hist.splits[k].parts) :
                LET parent == hist.splits[k].parent
                    part == hist.splits[k].parts[i]
                IN /\ part.visual_description = parent.visual_description
                   /\ part.emotion = parent.emotion
                   /\ part.emphasis_words =
                          SelectSeq(parent.emphasis_words,
                                    LAMBDA w : contains(part.text, w))

\* ---------------------------------------------------------------------
\* Stage 1, the duration check (TimingSpec)

\* stage 1 runs to its end
StageOneStep == pc = "validate_timing" /\ pc' = "split_long_segments"

\* characters / reading speed + 0.2 + 0.01 per character
stated_duration(text, speed) ==
    float_add(float_add(float_div(Float(Len(text), 1), speed), Float(2, 10)),
              float_mul(Float(Len(text), 1), Float(1, 100)))

\* the two durations are more than 2.0 seconds apart
stated_apart(a, b) ==
    \/ float_gt(float_sub(a, b), Float(2, 1))
    \/ float_gt(float_sub(b, a), Float(2, 1))

\* C25: stage 1 replaces a segment's stored duration by the expected
\* duration (characters / reading speed + 0.2 + 0.01 per character)
\* exactly when the two are more than 2.0 seconds apart and leaves it as
\* it is otherwise; the 8.0 seconds declared for the 18 characters of
\* "minasan, taijuukei ni noru no ga kowai hito~?" under the normal preset
\* become 2009/550 seconds; nothing else of a segment, and neither the
\* order nor the number of the segments, changes.
C25_StageOneReplacesDistantDurations ==
    [][StageOneStep =>
          /\ Len(heap'[1].segments) = Len(heap[1].segments)
          /\ \A i \in 1..Len(heap[1].segments) :
               LET before == heap[1].segments[i]
                   after == heap'[1].segments[i]
                   expected == stated_duration(before.text, processed_speed)
               IN /\ after = [before EXCEPT !.duration = after.duration]
                  /\ after.duration =
                         IF stated_apart(before.duration, expected)
                         THEN expected ELSE before.duration
                  /\ (before.text = TextScale
                      /\ before.duration = Float(8, 1)
                      /\ processed_speed = Float(55, 10))
                         => after.duration = Float(2009, 550)]_vars

\* stage 1 has replaced the 8.0 seconds of the scenario's segment
C25_Witness ==
    /\ pc = "split_long_segments"
    /\ Len(hist.input) = 1
    /\ hist.input[1].text = TextScale
    /\ hist.input[1].duration = Float(8, 1)
    /\ heap[1].segments[1].duration = Float(2009, 550)
    /\ heap[1].segments[1].text = TextScale

\* ---------------------------------------------------------------------
\* Stage 4, emotion and emphasis (TimingSpec)

\* stage 4 runs
StageFourStep == pc = "optimize_delivery" /\ pc' = "adjust_final_timing"

\* the four classes of _detect_emotion
matches_excited(text) ==
    has_double_bang(text)
    \/ contains_any(text, {<<"su", "go", "i">>, <<"sai", "kou">>,
                           <<"moto", "ba", "ra", "shi", "i">>})

matches_curious(text) ==
    contains_any(text, {<<"zen?">>, <<"?">>, <<"do", "u">>, <<"na", "ze">>,
                        <<"do", "u", "shi", "te">>})

matches_happy(text) ==
    contains_any(text, {<<"ure", "shi", "i">>, <<"tano", "shi", "i">>,
                        <<"shiawa", "se">>, <<"warai">>})

matches_surprised(text) ==
    contains_any(text, {<<"na", "n", "to">>, <<"jitsu", "ha">>,
                        <<"odoro", "ki">>, <<"bi", "xtu", "ku", "ri">>})

\* the first class that matches, in the order excited, curious, happy,
\* surprised
first_match(text) ==
    CASE matches_excited(text) -> "excited"
      [] ~matches_excited(text) /\ matches_curious(text) -> "curious"
      [] ~matches_excited(text) /\ ~matches_curious(text)
           /\ matches_happy(text) -> "happy"
      [] ~matches_excited(text) /\ ~matches_curious(text)
           /\ ~matches_happy(text) /\ matches_surprised(text) -> "surprised"
      [] OTHER -> "neutral"

\* C26: stage 4 changes a segment's emotion only if it is neutral on
\* entry, to the first class that matches its text in the order excited,
\* curious, happy, surprised, and leaves it neutral if none matches; it
\* computes emphasis words only for a segment that arrives with none.  A
\* segment with another emotion keeps it, a segment with emphasis words
\* keeps them, and nothing else of a segment changes.
C26_StageFourFillsDefaultsOnly ==
    [][StageFourStep =>
          /\ Len(heap'[1].segments) = Len(heap[1].segments)
          /\ \A i \in 1..Len(heap[1].segments) :
               LET before == heap[1].segments[i]
                   after == heap'[1].segments[i]
               IN /\ after = [before EXCEPT
                                 !.emotion = after.emotion,
                                 !.emphasis_words = after.emphasis_words]
                  /\ after.emotion =
                         IF before.emotion = "neutral"
                         THEN first_match(before.text)
                         ELSE before.emotion
                  /\ after.emphasis_words =
                         IF before.emphasis_words = <<>>
                         THEN detect_emphasis_words(before.text)
                         ELSE before.emphasis_words]_vars

\* stage 4 has run on the script of mixed emotions: the first of two
\* matching classes was chosen twice, and the third segment kept what it
\* came with
C26_Witness ==
    /\ pc = "adjust_final_timing"
    /\ hist.input = MixedEmotions
    /\ Len(heap[1].segments) = 3
    /\ heap[1].segments[1].emotion = "excited"
    /\ heap[1].segments[1].emphasis_words = <<<<"su", "go", "i">>>>
    /\ heap[1].segments[2].emotion = "happy"
    /\ heap[1].segments[3].emotion = "calm"
    /\ heap[1].segments[3].emphasis_words = <<<<"go">>>>

\* ---------------------------------------------------------------------
\* The order of the five stages (TimingSpec)

\* from each stage to the next, lines 49-60, and to the return at line 66
StageOrder ==
    {<<"validate_timing", "split_long_segments">>,
     <<"split_long_segments", "add_natural_pauses">>,
     <<"add_natural_pauses", "optimize_delivery">>,
     <<"optimize_delivery", "adjust_final_timing">>,
     <<"adjust_final_timing", "processed">>}

Stages == {step[1] : step \in StageOrder}

\* stage 2 runs
StageTwoStep == pc = "split_long_segments" /\ pc' = "add_natural_pauses"

\* the number of '<pause>' markers in the texts of a list of segments
RECURSIVE pauses_total(_)
pauses_total(segments) ==
    IF segments = <<>> THEN 0
    ELSE count_pauses(Head(segments).text) + pauses_total(Tail(segments))

\* C27: process_script applies its five stages once each in the order
\* duration validation, splitting, pause insertion, emphasis and emotion,
\* compression, each stage handing over to the next one or raising.  So
\* stage 2 splits exactly the segments whose duration as stage 1 left it,
\* no pause increment in it, is above the per-segment maximum; and the
\* total that stage 5 compares with the ceiling and divides it by holds
\* the pause increments of stage 3, which stage 4 leaves alone.
C27_StagesOnceInOrder ==
    [][/\ pc' # pc =>
            \/ <<pc, pc'>> \in StageOrder
            \/ pc \in Stages /\ pc' = "raised"
       /\ StageOneStep =>
            heap'[1].segments =
                validate_timing(heap[1].segments, 1,
                                default_speed(args)).segments
       /\ StageTwoStep =>
            /\ \A i \in 1..Len(heap[1].segments) :
                 count_markers(heap[1].segments[i].text) = 0
            /\ [k \in 1..Len(hist'.splits) |-> hist'.splits[k].parent] =
                 SelectSeq(heap[1].segments,
                           LAMBDA s : float_gt(s.duration,
                                               max_segment_duration))
       /\ StageThreeStep =>
            /\ heap'[1].segments = add_natural_pauses(heap[1].segments)
            /\ durations_total(heap'[1].segments) =
                 float_add(durations_total(heap[1].segments),
                     float_mul(Float(pauses_total(heap'[1].segments), 1),
                               Float(3, 10)))
       /\ StageFourStep =>
            /\ heap'[1].segments = optimize_delivery(heap[1].segments)
            /\ durations(heap'[1].segments) = durations(heap[1].segments)
       /\ StageFiveStep =>
            /\ pauses_total(heap'[1].segments) = pauses_total(heap[1].segments)
            /\ float_gt(durations_total(heap[1].segments), max_duration) =>
                 \A i \in 1..Len(heap[1].segments) :
                     float_mul(heap'[1].segments[i].duration,
                               durations_total(heap[1].segments)) =
                     float_mul(heap[1].segments[i].duration, max_duration)
      ]_vars

\* process_script has returned a script of which it split a segment,
\* lengthened a segment for its pauses and compressed the total
C27_Witness ==
    /\ Processed
    /\ Rescaled
    /\ hist.splits # <<>>
    /\ pauses_total(hist.timed) > 0
    /\ durations_total(heap[1].segments) = max_duration

\* ---------------------------------------------------------------------
\* The chunk loop of upload_to_youtube (Spec)

\* the dictionary upload_to_youtube returned last, where its caller put it
last_upload ==
    CASE up.caller = "create_and_post" -> loc.upload_result[2]
      [] up.caller = "resume_project" -> result[2].upload_result[2]
      [] up.caller = "schedule_uploads" ->
           batch.upload_results[Len(batch.upload_results)]

\* C28: in the chunk loop of upload_to_youtube server errors are retried,
\* five times at most; the sixth server error, any other HTTP error and
\* any other exception end the upload with success = False.  Whenever the
\* upload ends with success = False the project's status and its
\* youtube_video_id are as they were: the status is not set to UPLOADED
\* and the video id stays unset.
C28_ServerErrorsRetriedFiveTimes ==
    [][pc = "up_chunk" =>
          /\ up.retry <= MaxRetries
          /\ up'.retry \in {up.retry, up.retry + 1}
          /\ (up'.retry = up.retry + 1 /\ up'.retry <= MaxRetries)
                => pc' = "up_chunk" /\ heap' = heap
          /\ up'.retry = MaxRetries + 1 => pc' # "up_chunk" /\ ~last_upload'.success
          /\ pc' # "up_chunk" =>
                \/ /\ last_upload'.success
                   /\ up' = up
                   /\ heap'[up.h].status = "UPLOADED"
                \/ /\ ~last_upload'.success
                   /\ heap[up.h].youtube_video_id = None
                   /\ heap' = heap]_vars

\* the sixth server error has ended an upload: it failed, and the project
\* is neither UPLOADED nor has it a video id
C28_Witness ==
    /\ up.caller # ""
    /\ pc # "up_chunk"
    /\ up.retry = MaxRetries + 1
    /\ ~last_upload.success
    /\ heap[up.h].status = "READY_TO_UPLOAD"
    /\ heap[up.h].youtube_video_id = None

\* ---------------------------------------------------------------------
\* Segments and audio clips at Phase 4 (Spec)

\* C29 (as stated, refuted): whenever create_and_post reaches Phase 4 with
\* status AUDIO_GENERATED, the project has exactly one audio clip per
\* script segment and the k-th clip belongs to the k-th segment
\* (audio_clip.segment_id = segment.id).
C29_OneClipPerSegmentInOrder ==
    (pc = "phase4" /\ heap[cur].status = "AUDIO_GENERATED") =>
        /\ Len(loc.audio_clips) = Len(heap[cur].script[2].segments)
        /\ Len(heap[cur].audio_clips) = Len(heap[cur].script[2].segments)
        /\ \A k \in 1..Len(loc.audio_clips) :
             loc.audio_clips[k].segment_id =
                 heap[cur].script[2].segments[k].id

\* ---------------------------------------------------------------------
\* batch_create with scheduled uploads (Spec)

\* batch_create has returned after schedule_uploads ran
BatchScheduled ==
    /\ op = "batch_create"
    /\ pc = "idle"
    /\ result[1] = "list"
    /\ batch.auto_post
    /\ batch.schedule_start # None
    /\ batch.projects # <<>>

\* C30 (as stated, refuted): in batch_create with auto_post and a schedule
\* start, every successful result has an upload_result attached and it is
\* the scheduled-upload result of that same project (the project_id is the
\* result's project's id), also when some services failed or some projects
\* had no video file.
C30_UploadResultOfSameProject ==
    BatchScheduled =>
        \A k \in 1..Len(result[2]) :
            result[2][k].success =>
                /\ result[2][k].upload_result # None
                /\ result[2][k].upload_result[2].project_id =
                       heap[result[2][k].project].id

====
